---------------------------- MODULE Spec2Model ----------------------------
(***************************************************************************)
(* A model of the RDAT ("runtime data") codec of                           *)
(* renderdoc/driver/shaders/dxil/dxil_metadata.cpp: the interning tables   *)
(* (StringBuffer, IndexArrays, MakeBytesRef), the part framer              *)
(* (BakeRuntimePart, BakeRuntimeTablePart), the encoder                    *)
(* DXBCContainer::SetRuntimeData and the decoder                           *)
(* DXBCContainer::GetRuntimeData.                                          *)
(*                                                                         *)
(* Bytes are numbers 0..255 and a byte buffer is a sequence of them.  A    *)
(* uint32_t is held as the number of the same bit pattern read as a        *)
(* two's-complement int32, so ~0U is -1 (the same identification the code  *)
(* makes when it pushes the int32_t result of indexOf into an array of     *)
(* uint32_t).  C++ offsets are 0-based, sequences here are 1-based: the    *)
(* element at offset o is s[o + 1].                                        *)
(***************************************************************************)
EXTENDS Integers, Sequences, FiniteSets, TLC

VARIABLES
    \* ---- the interning tables exercised on their own
    mode,           \* which table object this run exercises
    sb,             \* a StringBuffer: [dedup, stringblob]
    ia,             \* an IndexArrays: [dedup, prefix, idxArrays]
    bytesblobs,     \* the rdcarray<bytebuf> handed to MakeBytesRef
    calls,          \* history of the MakeRef calls made: value, arguments, result
    \* ---- the part framer exercised on its own
    parts,          \* rdcarray<bytebuf> parts
    baked,          \* history of the bake calls: tag, payload bytes handed in, grew
    \* ---- the codec
    pc,             \* where SetRuntimeData / GetRuntimeData stands
    src,            \* the RDATData handed to SetRuntimeData
    enc,            \* SetRuntimeData's locals: stringblob, indexarrays,
                    \* rawbyteLookups and the four encoded record arrays
    ByteCode,       \* the bytes handed to ReplaceChunk as the RDAT chunk
    container,      \* the DXBCContainer decoded: m_ShaderBlob, m_RDATOffset
    partOffsets,    \* GetRuntimeData's partOffsets
    tabs,           \* GetRuntimeData's stringbuffer, indexArrays, rawbytes
    rdat,           \* the RDATData GetRuntimeData writes to
    ret,            \* what GetRuntimeData returned: "true", "false", or
                    \* "crashed" when it did not return; "none" before
    dstat,          \* what GetRuntimeData did: the rdat it was handed (entry),
                    \* header words read, parts read, references handed to
                    \* GetSpan, assertions, warnings, reads outside a buffer
    foreign         \* how the container decoded came about: [kind, arg]

tableVars == <<mode, sb, ia, bytesblobs, calls>>
bakeVars == <<parts, baked>>
encVars == <<src, enc, ByteCode>>
decVars == <<container, partOffsets, tabs, rdat, ret, dstat, foreign>>
vars == <<mode, sb, ia, bytesblobs, calls, parts, baked, pc, src, enc, ByteCode,
          container, partOffsets, tabs, rdat, ret, dstat, foreign>>

-----------------------------------------------------------------------------
(* Bounds of the model *)

\* number of MakeRef calls made on one table
MaxCalls == 3
\* longest string / index array / byte blob interned in the table runs
MaxValueLen == 2
\* most records (resources, functions and subobjects together) of an encoded
\* RDATData
MaxRecords == 3
\* most records of the RDATData behind a container handed to the decoder
MaxForeignRecords == 2
\* number of bake calls made on one part list
MaxBakes == 3
\* largest blob payload, in bytes, handed to the framer
MaxPayload == 5
\* most records in a table handed to the framer
MaxBakeRecords == 2
\* largest record size, in bytes, of a table handed to the framer
MaxRecordSize == 5

-----------------------------------------------------------------------------
(* Generic helpers *)

Min(a, b) == IF a < b THEN a ELSE b

RECURSIVE SeqsUpTo(_, _)
\* all sequences over S of length at most n
SeqsUpTo(S, n) ==
    IF n = 0 THEN {<<>>}
    ELSE LET shorter == SeqsUpTo(S, n - 1)
         IN  shorter \cup {Append(s, e) : s \in {t \in shorter : Len(t) = n - 1}, e \in S}

RECURSIVE Concat(_)
\* concatenation of a sequence of sequences
Concat(ss) == IF ss = <<>> THEN <<>> ELSE Head(ss) \o Concat(Tail(ss))

RECURSIVE SumLen(_, _)
\* sum of the sizes of the first n elements of ss
SumLen(ss, n) == IF n = 0 THEN 0 ELSE SumLen(ss, n - 1) + Len(ss[n])

Zeros(n) == [i \in 1..n |-> 0]

\* ~0U
NullRef == -1

-----------------------------------------------------------------------------
(* StringBuffer *)

RECURSIVE StrLen(_, _)
\* strlen(stringblob.c_str() + offs): c_str() is NUL terminated after the
\* last byte of the blob
StrLen(blob, offs) ==
    IF offs >= Len(blob) \/ blob[offs + 1] = 0 THEN 0
    ELSE 1 + StrLen(blob, offs + 1)

\* StringBuffer::StringBuffer
StringBuffer_New(deduplicating) == [dedup |-> deduplicating, stringblob |-> <<0>>]

\* StringBuffer::Load
StringBuffer_Load(s, data) == [s EXCEPT !.stringblob = data]

\* StringBuffer::GetString, for an offset inside the blob
StringBuffer_GetString(s, offs) ==
    SubSeq(s.stringblob, offs + 1, offs + StrLen(s.stringblob, offs))

RECURSIVE StringBuffer_Find(_, _, _)
\* the linear search of StringBuffer::MakeRef: the offset of the first entry
\* equal to str, walking entry by entry from offs; NullRef when there is none
StringBuffer_Find(blob, str, offs) ==
    IF offs >= Len(blob) THEN NullRef
    ELSE LET curlen == StrLen(blob, offs)
         IN  IF curlen = Len(str) /\ SubSeq(blob, offs + 1, offs + curlen) = str
             THEN offs
             ELSE StringBuffer_Find(blob, str, offs + curlen + 1)

\* StringBuffer::MakeRef with the search left out: every call appends
StringBuffer_MakeRef_NoSearch(s, str) ==
    [obj |-> [s EXCEPT !.stringblob = s.stringblob \o str \o <<0>>],
     ref |-> Len(s.stringblob)]

\* StringBuffer::MakeRef without the push_back of the terminator
StringBuffer_MakeRef_NoTerminator(s, str) ==
    LET found == IF s.dedup THEN StringBuffer_Find(s.stringblob, str, 0) ELSE NullRef
    IN  IF found # NullRef
        THEN [obj |-> s, ref |-> found]
        ELSE [obj |-> [s EXCEPT !.stringblob = s.stringblob \o str],
              ref |-> Len(s.stringblob)]

\* StringBuffer::MakeRef: the table after the call and the reference returned
StringBuffer_MakeRef(s, str) ==
    LET found == IF s.dedup THEN StringBuffer_Find(s.stringblob, str, 0) ELSE NullRef
    IN  IF found # NullRef
        THEN [obj |-> s, ref |-> found]
        ELSE [obj |-> [s EXCEPT !.stringblob = s.stringblob \o str \o <<0>>],
              ref |-> Len(s.stringblob)]

-----------------------------------------------------------------------------
(* IndexArrays *)

\* IndexArrays::IndexArrays
IndexArrays_New(deduplicating, lengthprefixing) ==
    [dedup |-> deduplicating, prefix |-> lengthprefixing, idxArrays |-> <<>>]

\* IndexArrays::GetSpan, for an offset inside the array: the span's elements
IndexArrays_GetSpan(a, offs) ==
    IF a.prefix
    THEN SubSeq(a.idxArrays, offs + 2, offs + 1 + a.idxArrays[offs + 1])
    ELSE SubSeq(a.idxArrays, offs + 1, Len(a.idxArrays))

RECURSIVE IndexArrays_Find_EveryOffset(_, _, _)
\* the linear search of IndexArrays::MakeRef stepping to the next offset in
\* both modes
IndexArrays_Find_EveryOffset(a, idxs, offs) ==
    IF offs >= Len(a.idxArrays) THEN NullRef
    ELSE LET curlen == IF a.prefix THEN a.idxArrays[offs + 1]
                       ELSE Len(a.idxArrays) - offs
             start == IF a.prefix THEN offs + 1 ELSE offs
             lenok == IF a.prefix THEN curlen = Len(idxs) ELSE curlen >= Len(idxs)
             allsame == \A i \in 1..Len(idxs) :
                           start + i <= Len(a.idxArrays) /\ idxs[i] = a.idxArrays[start + i]
         IN  IF lenok /\ allsame THEN offs
             ELSE IndexArrays_Find_EveryOffset(a, idxs, offs + 1)

RECURSIVE IndexArrays_Find(_, _, _)
\* the linear search of IndexArrays::MakeRef
IndexArrays_Find(a, idxs, offs) ==
    IF offs >= Len(a.idxArrays) THEN NullRef
    ELSE LET curlen == IF a.prefix THEN a.idxArrays[offs + 1]
                       ELSE Len(a.idxArrays) - offs
             start == IF a.prefix THEN offs + 1 ELSE offs
             lenok == IF a.prefix THEN curlen = Len(idxs) ELSE curlen >= Len(idxs)
             allsame == \A i \in 1..Len(idxs) : idxs[i] = a.idxArrays[start + i]
         IN  IF lenok /\ allsame THEN offs
             ELSE IndexArrays_Find(a, idxs, IF a.prefix THEN offs + 1 + curlen ELSE offs + 1)

\* IndexArrays::MakeRef searching whether or not the table deduplicates
IndexArrays_MakeRef_AlwaysSearch(a, idxs, emptyIsNull) ==
    IF emptyIsNull /\ idxs = <<>> THEN [obj |-> a, ref |-> NullRef]
    ELSE LET found == IndexArrays_Find(a, idxs, 0)
         IN  IF found # NullRef
             THEN [obj |-> a, ref |-> found]
             ELSE [obj |-> [a EXCEPT !.idxArrays =
                                 (IF a.prefix THEN Append(a.idxArrays, Len(idxs))
                                  ELSE a.idxArrays) \o idxs],
                   ref |-> Len(a.idxArrays)]

\* IndexArrays::MakeRef
IndexArrays_MakeRef(a, idxs, emptyIsNull) ==
    IF emptyIsNull /\ idxs = <<>> THEN [obj |-> a, ref |-> NullRef]
    ELSE LET found == IF a.dedup THEN IndexArrays_Find(a, idxs, 0) ELSE NullRef
         IN  IF found # NullRef
             THEN [obj |-> a, ref |-> found]
             ELSE [obj |-> [a EXCEPT !.idxArrays =
                                 (IF a.prefix THEN Append(a.idxArrays, Len(idxs))
                                  ELSE a.idxArrays) \o idxs],
                   ref |-> Len(a.idxArrays)]

-----------------------------------------------------------------------------
(* MakeBytesRef *)

\* rdcarray::indexOf, 0-based, -1 when absent
IndexOf(arr, v) ==
    IF \E i \in 1..Len(arr) : arr[i] = v
    THEN (CHOOSE i \in 1..Len(arr) : arr[i] = v /\ \A j \in 1..(i - 1) : arr[j] # v) - 1
    ELSE -1

\* MakeBytesRef: the blob list after the call and the BytesReference returned
MakeBytesRef(blobs, bytes) ==
    IF bytes = <<>> THEN [obj |-> blobs, ref |-> [offset |-> NullRef, size |-> 0]]
    ELSE LET idx == IndexOf(blobs, bytes)
         IN  IF idx < 0
             THEN [obj |-> Append(blobs, bytes),
                   ref |-> [offset |-> SumLen(blobs, Len(blobs)), size |-> Len(bytes)]]
             ELSE [obj |-> blobs,
                   ref |-> [offset |-> SumLen(blobs, idx), size |-> Len(bytes)]]

-----------------------------------------------------------------------------
(* Bytes *)

\* the four little-endian bytes of a uint32_t (memcpy of the value)
U32Bytes(v) ==
    <<v % 256, (v \div 256) % 256, (v \div 65536) % 256, (v \div 16777216) % 256>>

\* the byte at offset offs of buf.  A read outside the buffer is undefined:
\* the operators that make one report it (ub), and the value here stands for
\* whatever was read.
ByteAt(buf, offs) == IF offs >= 0 /\ offs < Len(buf) THEN buf[offs + 1] ELSE 0

\* the uint32_t stored at byte offset offs of buf
ReadU32(buf, offs) ==
    LET b3 == ByteAt(buf, offs + 3)
    IN  ByteAt(buf, offs) + 256 * ByteAt(buf, offs + 1) + 65536 * ByteAt(buf, offs + 2)
          + 16777216 * (IF b3 >= 128 THEN b3 - 256 ELSE b3)

\* the two little-endian bytes of a uint16_t
U16Bytes(v) == <<v % 256, (v \div 256) % 256>>

\* the uint16_t stored at byte offset offs of buf
ReadU16(buf, offs) == ByteAt(buf, offs) + 256 * ByteAt(buf, offs + 1)

\* AlignUp4
AlignUp4(n) == ((n + 3) \div 4) * 4

\* sizeof(RuntimePartHeader): part, size
SizeofRuntimePartHeader == 8
\* sizeof(RuntimePartTableHeader): count, stride
SizeofRuntimePartTableHeader == 8

\* DXIL::RDATData::Part, as stored in a part header
PartTag ==
    [Invalid |-> 0, StringBuffer |-> 1, IndexArrays |-> 2, ResourceTable |-> 3,
     FunctionTable |-> 4, RawBytes |-> 5, SubobjectTable |-> 6]

-----------------------------------------------------------------------------
(* The part framer *)

\* BakeRuntimePart with the size field holding the unaligned size
BakeRuntimePart_Unaligned(ps, part, data) ==
    IF Len(data) = 0 THEN ps
    ELSE Append(ps, U32Bytes(part) \o U32Bytes(Len(data)) \o data
                      \o Zeros(AlignUp4(Len(data)) - Len(data)))

\* BakeRuntimePart: the part list after the call.  data holds the byteSize
\* bytes handed in; bytebuf::resize zero-fills what memcpy does not write.
BakeRuntimePart(ps, part, data) ==
    IF Len(data) = 0 THEN ps
    ELSE LET byteSize == Len(data)
             alignedDataSize == AlignUp4(byteSize)
             header == U32Bytes(part) \o U32Bytes(alignedDataSize)
         IN  Append(ps, header \o data \o Zeros(alignedDataSize - byteSize))

\* BakeRuntimeTablePart<TableType>: entries is the record array, each record
\* its sizeofT bytes
BakeRuntimeTablePart(ps, part, entries, sizeofT) ==
    IF Len(entries) = 0 THEN ps
    ELSE LET byteSize == Len(entries) * sizeofT
             alignedEntriesSize == AlignUp4(byteSize)
             tableHeader == U32Bytes(Len(entries)) \o U32Bytes(AlignUp4(sizeofT))
             header == U32Bytes(part)
                         \o U32Bytes(alignedEntriesSize + SizeofRuntimePartTableHeader)
         IN  Append(ps, header \o tableHeader \o Concat(entries)
                          \o Zeros(alignedEntriesSize - byteSize))

-----------------------------------------------------------------------------
(* The decoded form, DXIL::RDATData *)

\* RDATData::Version1_0
Version1_0 == 16

\* DXIL::RDATData::SubobjectInfo::SubobjectType, as stored in a record
SubobjectType ==
    [StateConfig |-> 0, GlobalRS |-> 1, LocalRS |-> 2, SubobjectToExportsAssoc |-> 8,
     RTShaderConfig |-> 9, RTPipeConfig |-> 10, Hitgroup |-> 11, RTPipeConfig1 |-> 12]

\* sizeof(EncodedResourceInfo): eight 32-bit fields
SizeofEncodedResourceInfo == 32
\* sizeof(EncodedFunctionInfo): ten 32-bit fields and two 16-bit fields
SizeofEncodedFunctionInfo == 44
\* sizeof(EncodedFunctionInfo2): EncodedFunctionInfo, two 8-bit fields, one
\* 16-bit field and one 32-bit field
SizeofEncodedFunctionInfo2 == 52
\* sizeof(EncodedSubobjectInfo): type, name and a union of four 32-bit fields
SizeofEncodedSubobjectInfo == 24

\* a default-constructed RDATData::SubobjectInfo of the given type and name
SubobjectInfo_New(type, name) ==
    [type |-> type, name |-> name,
     config |-> 0,
     rs |-> [data |-> <<>>],
     assoc |-> [subobject |-> <<>>, exports |-> <<>>],
     rtshaderconfig |-> <<0, 0>>,
     rtpipeconfig |-> <<0, 0>>,
     hitgroup |-> [type |-> 0, anyHit |-> <<>>, closestHit |-> <<>>,
                   intersection |-> <<>>]]

\* the RDATData::FunctionInfo2 made from an RDATData::FunctionInfo: the
\* fields a version 1 record does not carry hold their defaults
FunctionInfo2_FromInfo(out) ==
    [name |-> out.name, unmangledName |-> out.unmangledName,
     globalResources |-> out.globalResources,
     functionDependencies |-> out.functionDependencies,
     type |-> out.type, payloadBytes |-> out.payloadBytes,
     attribBytes |-> out.attribBytes, featureFlags |-> out.featureFlags,
     shaderCompatMask |-> out.shaderCompatMask,
     minShaderModel |-> out.minShaderModel, minType |-> out.minType,
     minWaveCount |-> 0, maxWaveCount |-> 0, shaderBehaviourFlags |-> 0,
     extraInfoRef |-> NullRef]

\* a default-constructed RDATData whose version tag is ver
RDATData_New(ver) ==
    [functionVersion |-> ver, resourceInfo |-> <<>>, functionInfo |-> <<>>,
     subobjectsInfo |-> <<>>]

-----------------------------------------------------------------------------
(* The encoder, DXBCContainer::SetRuntimeData *)

\* EncodedResourceInfo as its bytes
EncodedResourceInfo(info, name) ==
    U32Bytes(info.nspace) \o U32Bytes(info.kind) \o U32Bytes(info.resourceIndex)
      \o U32Bytes(info.space) \o U32Bytes(info.regStart) \o U32Bytes(info.regEnd)
      \o U32Bytes(name) \o U32Bytes(info.flags)

RECURSIVE EncodeResourceInfos(_, _, _)
\* the loop over rdat.resourceInfo: the string buffer and the records after it
EncodeResourceInfos(s, infos, out) ==
    IF infos = <<>> THEN [sb |-> s, out |-> out]
    ELSE LET r == StringBuffer_MakeRef(s, Head(infos).name)
         IN  EncodeResourceInfos(r.obj, Tail(infos),
                                 Append(out, EncodedResourceInfo(Head(infos), r.ref)))

RECURSIVE MakeRefs(_, _, _)
\* stringblob.MakeRef of each string of strs in turn: the string buffer
\* after the calls and the offsets returned
MakeRefs(s, strs, out) ==
    IF strs = <<>> THEN [sb |-> s, out |-> out]
    ELSE LET r == StringBuffer_MakeRef(s, Head(strs))
         IN  MakeRefs(r.obj, Tail(strs), Append(out, r.ref))

RECURSIVE AllDependencies(_)
\* every function's dependency names, function by function
AllDependencies(infos) ==
    IF infos = <<>> THEN <<>>
    ELSE Head(infos).functionDependencies \o AllDependencies(Tail(infos))

\* rdat.resourceInfo.indexOf(res): the index of the first resource whose
\* class and index are those of the pair, -1 when there is none
IndexOfResource(resourceInfo, res) ==
    IndexOf([i \in 1..Len(resourceInfo) |->
                <<resourceInfo[i].nspace, resourceInfo[i].resourceIndex>>], res)

\* EncodedFunctionInfo with the halves of featureFlags stored high first
EncodedFunctionInfo_HighFirst(info, name, unmangledName, globalRef, depsRef) ==
    U32Bytes(name) \o U32Bytes(unmangledName) \o U32Bytes(globalRef) \o U32Bytes(depsRef)
      \o U32Bytes(info.type) \o U32Bytes(info.payloadBytes) \o U32Bytes(info.attribBytes)
      \o U32Bytes(info.featureFlags[2]) \o U32Bytes(info.featureFlags[1])
      \o U32Bytes(info.shaderCompatMask)
      \o U16Bytes(info.minShaderModel) \o U16Bytes(info.minType)

\* EncodedFunctionInfo as its bytes.  featureFlags, a 64-bit value, is held
\* as its two 32-bit halves <<low, high>>.
EncodedFunctionInfo(info, name, unmangledName, globalRef, depsRef) ==
    U32Bytes(name) \o U32Bytes(unmangledName) \o U32Bytes(globalRef) \o U32Bytes(depsRef)
      \o U32Bytes(info.type) \o U32Bytes(info.payloadBytes) \o U32Bytes(info.attribBytes)
      \o U32Bytes(info.featureFlags[1]) \o U32Bytes(info.featureFlags[2])
      \o U32Bytes(info.shaderCompatMask)
      \o U16Bytes(info.minShaderModel) \o U16Bytes(info.minType)

\* EncodedFunctionInfo2 as its bytes
EncodedFunctionInfo2(info, info1) ==
    info1 \o <<info.minWaveCount % 256, info.maxWaveCount % 256>>
      \o U16Bytes(info.shaderBehaviourFlags) \o U32Bytes(NullRef)

RECURSIVE EncodeFunctionInfos(_, _, _, _)
\* the loop over rdat.functionInfo (the same for both versions up to the
\* record pushed): st holds the string buffer, the index arrays and the
\* records so far
EncodeFunctionInfos(st, resourceInfo, infos, version) ==
    IF infos = <<>> THEN st
    ELSE LET info == Head(infos)
             globalResourcesIndexArray ==
                 [j \in 1..Len(info.globalResources) |->
                     IndexOfResource(resourceInfo, info.globalResources[j])]
             deps == MakeRefs(st.sb, info.functionDependencies, <<>>)
             name == StringBuffer_MakeRef(deps.sb, info.name)
             unmangledName == StringBuffer_MakeRef(name.obj, info.unmangledName)
             globalRef == IndexArrays_MakeRef(st.ia, globalResourcesIndexArray, TRUE)
             depsRef == IndexArrays_MakeRef(globalRef.obj, deps.out, TRUE)
             info1 == EncodedFunctionInfo(info, name.ref, unmangledName.ref,
                                          globalRef.ref, depsRef.ref)
         IN  EncodeFunctionInfos(
                 [sb |-> unmangledName.obj, ia |-> depsRef.obj,
                  out |-> Append(st.out, IF version = "Version1" THEN info1
                                         ELSE EncodedFunctionInfo2(info, info1))],
                 resourceInfo, Tail(infos), version)

\* EncodedSubobjectInfo as its bytes: type, name and the 16 bytes of the union
EncodedSubobjectInfo(type, name, payload) ==
    U32Bytes(type) \o U32Bytes(name) \o payload \o Zeros(16 - Len(payload))

\* one iteration of the loop over rdat.subobjectsInfo
EncodeSubobjectInfo(st, info) ==
    LET name == StringBuffer_MakeRef(st.sb, info.name)
        T == SubobjectType
    IN  IF info.type = T.StateConfig
        THEN [st EXCEPT !.sb = name.obj,
                 !.out = Append(@, EncodedSubobjectInfo(info.type, name.ref,
                                                        U32Bytes(info.config)))]
        ELSE IF info.type \in {T.GlobalRS, T.LocalRS}
        THEN LET data == MakeBytesRef(st.blobs, info.rs.data)
             IN  [st EXCEPT !.sb = name.obj, !.blobs = data.obj,
                     !.out = Append(@, EncodedSubobjectInfo(info.type, name.ref,
                                 U32Bytes(data.ref.offset) \o U32Bytes(data.ref.size)))]
        ELSE IF info.type = T.SubobjectToExportsAssoc
        THEN LET subobject == StringBuffer_MakeRef(name.obj, info.assoc.subobject)
                 tmpIdxArray == MakeRefs(subobject.obj, info.assoc.exports, <<>>)
                 exports == IndexArrays_MakeRef(st.ia, tmpIdxArray.out, FALSE)
             IN  [st EXCEPT !.sb = tmpIdxArray.sb, !.ia = exports.obj,
                     !.out = Append(@, EncodedSubobjectInfo(info.type, name.ref,
                                 U32Bytes(subobject.ref) \o U32Bytes(exports.ref)))]
        ELSE IF info.type = T.RTShaderConfig
        THEN [st EXCEPT !.sb = name.obj,
                 !.out = Append(@, EncodedSubobjectInfo(info.type, name.ref,
                             U32Bytes(info.rtshaderconfig[1])
                               \o U32Bytes(info.rtshaderconfig[2])))]
        ELSE IF info.type \in {T.RTPipeConfig, T.RTPipeConfig1}
        THEN [st EXCEPT !.sb = name.obj,
                 !.out = Append(@, EncodedSubobjectInfo(info.type, name.ref,
                             U32Bytes(info.rtpipeconfig[1])
                               \o U32Bytes(info.rtpipeconfig[2])))]
        ELSE IF info.type = T.Hitgroup
        THEN LET anyHit == StringBuffer_MakeRef(name.obj, info.hitgroup.anyHit)
                 closestHit == StringBuffer_MakeRef(anyHit.obj, info.hitgroup.closestHit)
                 intersection ==
                     StringBuffer_MakeRef(closestHit.obj, info.hitgroup.intersection)
             IN  [st EXCEPT !.sb = intersection.obj,
                     !.out = Append(@, EncodedSubobjectInfo(info.type, name.ref,
                                 U32Bytes(info.hitgroup.type) \o U32Bytes(anyHit.ref)
                                   \o U32Bytes(closestHit.ref)
                                   \o U32Bytes(intersection.ref)))]
        ELSE \* unhandled subobject type: warned about, the union left as initialised
             [st EXCEPT !.sb = name.obj,
                 !.out = Append(@, EncodedSubobjectInfo(info.type, name.ref, <<>>))]

RECURSIVE EncodeSubobjectInfos(_, _)
\* the loop over rdat.subobjectsInfo
EncodeSubobjectInfos(st, infos) ==
    IF infos = <<>> THEN st
    ELSE EncodeSubobjectInfos(EncodeSubobjectInfo(st, Head(infos)), Tail(infos))

RECURSIVE WordsBytes(_)
\* the bytes of an array of uint32_t
WordsBytes(ws) == IF ws = <<>> THEN <<>> ELSE U32Bytes(Head(ws)) \o WordsBytes(Tail(ws))

\* the bake calls of SetRuntimeData with the index arrays baked in the order
\* of their tag, before the resource table
BakeAll_TagOrder(s, a, blobs, e) ==
    LET p1 == BakeRuntimePart(<<>>, PartTag.StringBuffer, s.stringblob)
        p2 == BakeRuntimePart(p1, PartTag.IndexArrays, WordsBytes(a.idxArrays))
        p3 == BakeRuntimeTablePart(p2, PartTag.ResourceTable, e.resourceInfo,
                                   SizeofEncodedResourceInfo)
        p4 == IF e.functionInfo # <<>>
              THEN BakeRuntimeTablePart(p3, PartTag.FunctionTable, e.functionInfo,
                                        SizeofEncodedFunctionInfo)
              ELSE BakeRuntimeTablePart(p3, PartTag.FunctionTable, e.functionInfo2,
                                        SizeofEncodedFunctionInfo2)
        p5 == BakeRuntimePart(p4, PartTag.RawBytes, Concat(blobs))
    IN  BakeRuntimeTablePart(p5, PartTag.SubobjectTable, e.subobjectsInfo,
                             SizeofEncodedSubobjectInfo)

\* the bake calls of SetRuntimeData, in the order of the code
BakeAll(s, a, blobs, e) ==
    LET p1 == BakeRuntimePart(<<>>, PartTag.StringBuffer, s.stringblob)
        p2 == BakeRuntimeTablePart(p1, PartTag.ResourceTable, e.resourceInfo,
                                   SizeofEncodedResourceInfo)
        p3 == IF e.functionInfo # <<>>
              THEN BakeRuntimeTablePart(p2, PartTag.FunctionTable, e.functionInfo,
                                        SizeofEncodedFunctionInfo)
              ELSE BakeRuntimeTablePart(p2, PartTag.FunctionTable, e.functionInfo2,
                                        SizeofEncodedFunctionInfo2)
        p4 == BakeRuntimePart(p3, PartTag.IndexArrays, WordsBytes(a.idxArrays))
        p5 == BakeRuntimePart(p4, PartTag.RawBytes, Concat(blobs))
    IN  BakeRuntimeTablePart(p5, PartTag.SubobjectTable, e.subobjectsInfo,
                             SizeofEncodedSubobjectInfo)

RECURSIVE PartOffsetsFrom(_, _)
\* the offsets written by the header loop, starting at offset
PartOffsetsFrom(ps, offset) ==
    IF ps = <<>> THEN <<>>
    ELSE <<offset>> \o PartOffsetsFrom(Tail(ps), offset + Len(Head(ps)))

\* WriteTotal with the first offset not counting the part count word
WriteTotal_ShortHeader(ps) ==
    LET offset == 4 + 4 * Len(ps)
    IN  U32Bytes(Version1_0) \o U32Bytes(Len(ps))
          \o WordsBytes(PartOffsetsFrom(ps, offset)) \o Concat(ps)

\* the bytes written to the StreamWriter: version, part count, part offsets,
\* then the parts
WriteTotal(ps) ==
    LET offset == 4 + 4 * (1 + Len(ps))
    IN  U32Bytes(Version1_0) \o U32Bytes(Len(ps))
          \o WordsBytes(PartOffsetsFrom(ps, offset)) \o Concat(ps)

-----------------------------------------------------------------------------
(* The decoder, DXBCContainer::GetRuntimeData *)

\* in: the bytes of m_ShaderBlob from m_RDATOffset on
RegionOf(c) == SubSeq(c.m_ShaderBlob, c.m_RDATOffset + 1, Len(c.m_ShaderBlob))

\* a read of n bytes at offset offs stays inside buf
InBuffer(buf, offs, n) == offs >= 0 /\ offs + n <= Len(buf)

\* ReadHeader reading the part count and the offsets before it looks at the
\* version
ReadHeader_CountFirst(in) ==
    LET numParts == ReadU32(in, 4)
    IN  [ok |-> ReadU32(in, 0) = Version1_0,
         partOffsets |-> [i \in 1..numParts |-> ReadU32(in, 4 * (2 + (i - 1)))],
         words |-> 2 + numParts]

\* ReadHeader taking any version word
ReadHeader_AnyVersion(in) ==
    LET numParts == ReadU32(in, 4)
    IN  [ok |-> TRUE,
         partOffsets |-> [i \in 1..numParts |-> ReadU32(in, 4 * (2 + (i - 1)))],
         words |-> 2 + numParts]

\* the header: FALSE for a version other than Version1_0, else the part
\* offsets; words counts the 32-bit words of the header that were read
ReadHeader(in) ==
    IF ReadU32(in, 0) # Version1_0
    THEN [ok |-> FALSE, partOffsets |-> <<>>, words |-> 1]
    ELSE LET numParts == ReadU32(in, 4)
         IN  [ok |-> TRUE,
              partOffsets |-> [i \in 1..numParts |-> ReadU32(in, 4 * (2 + (i - 1)))],
              words |-> 2 + numParts]

\* part->part and part->size of the RuntimePartHeader at partOffset, and the
\* offset of the data that follows it
PartAt(in, partOffset) ==
    [part |-> ReadU32(in, partOffset), size |-> ReadU32(in, partOffset + 4),
     data |-> partOffset + SizeofRuntimePartHeader]

\* IndexArrays::Load
IndexArrays_Load(a, data) ==
    [a EXCEPT !.idxArrays = [i \in 1..(Len(data) \div 4) |-> ReadU32(data, 4 * (i - 1))]]

RECURSIVE LoadTables(_, _, _)
\* the first pass over the parts: t holds stringbuffer, indexArrays, rawbytes
LoadTables(in, offsets, t) ==
    IF offsets = <<>> THEN t
    ELSE LET p == PartAt(in, Head(offsets))
             data == SubSeq(in, p.data + 1, p.data + p.size)
             next == IF p.part = PartTag.StringBuffer
                     THEN [t EXCEPT !.stringbuffer = StringBuffer_Load(@, data)]
                     ELSE IF p.part = PartTag.IndexArrays
                     THEN [t EXCEPT !.indexArrays = IndexArrays_Load(@, data)]
                     ELSE IF p.part = PartTag.RawBytes
                     THEN [t EXCEPT !.rawbytes = data]
                     ELSE t
         IN  LoadTables(in, Tail(offsets), next)

\* stringbuffer.GetString(offs) is a read inside the string blob
StringInBounds(t, offs) == offs >= 0 /\ offs <= Len(t.stringbuffer.stringblob)

\* stringbuffer.GetString(offs); g is what a read outside the blob yields
GetString(t, offs, g) ==
    IF StringInBounds(t, offs) THEN StringBuffer_GetString(t.stringbuffer, offs) ELSE g.str

\* indexArrays.GetSpan(offs) and the reads of its elements stay inside the
\* index array
SpanInBounds(t, offs) ==
    /\ offs >= 0 /\ offs < Len(t.indexArrays.idxArrays)
    /\ t.indexArrays.idxArrays[offs + 1] >= 0
    /\ offs + 1 + t.indexArrays.idxArrays[offs + 1] <= Len(t.indexArrays.idxArrays)

\* the elements of indexArrays.GetSpan(offs)
GetSpan(t, offs, g) ==
    IF SpanInBounds(t, offs) THEN IndexArrays_GetSpan(t.indexArrays, offs) ELSE g.span

\* GetSpan called whatever the reference
SpanUnlessNull_Always(t, ref, g) == [elems |-> GetSpan(t, ref, g), calls |-> <<ref>>]

\* lines 485-488, 495-498 and 558-561: GetSpan is called unless the
\* reference is ~0U; elems are the span's elements (none for ~0U), calls the
\* references handed to GetSpan
SpanUnlessNull(t, ref, g) ==
    IF ref # NullRef THEN [elems |-> GetSpan(t, ref, g), calls |-> <<ref>>]
    ELSE [elems |-> <<>>, calls |-> <<>>]

\* the strings named by a span of string offsets
GetStrings(t, refs, g) == [j \in 1..Len(refs) |-> GetString(t, refs[j], g)]

\* one EncodedResourceInfo at offset rec of in, decoded
DecodeResourceInfo(in, rec, t, g) ==
    [nspace |-> ReadU32(in, rec), kind |-> ReadU32(in, rec + 4),
     resourceIndex |-> ReadU32(in, rec + 8), space |-> ReadU32(in, rec + 12),
     regStart |-> ReadU32(in, rec + 16), regEnd |-> ReadU32(in, rec + 20),
     name |-> GetString(t, ReadU32(in, rec + 24), g),
     flags |-> ReadU32(in, rec + 28)]

\* the reads DecodeResourceInfo makes are inside the buffers read
ResourceInfoInBounds(in, rec, t) ==
    /\ InBuffer(in, rec, SizeofEncodedResourceInfo)
    /\ StringInBounds(t, ReadU32(in, rec + 24))

\* rdat.resourceInfo[idx] as the pair pushed to func.globalResources
ResourcePair(resourceInfo, idx, g) ==
    IF idx >= 0 /\ idx < Len(resourceInfo)
    THEN <<resourceInfo[idx + 1].nspace, resourceInfo[idx + 1].resourceIndex>>
    ELSE g.pair

\* one function record at offset rec of in, decoded under the given version
DecodeFunctionInfo(in, rec, version, resourceInfo, t, g) ==
    LET globalRef == ReadU32(in, rec + 8)
        depsRef == ReadU32(in, rec + 12)
        out == [name |-> GetString(t, ReadU32(in, rec), g),
                unmangledName |-> GetString(t, ReadU32(in, rec + 4), g),
                globalResources |-> <<>>,
                functionDependencies |-> <<>>,
                type |-> ReadU32(in, rec + 16),
                payloadBytes |-> ReadU32(in, rec + 20),
                attribBytes |-> ReadU32(in, rec + 24),
                featureFlags |-> <<ReadU32(in, rec + 28), ReadU32(in, rec + 32)>>,
                shaderCompatMask |-> ReadU32(in, rec + 36),
                minShaderModel |-> ReadU16(in, rec + 40),
                minType |-> ReadU16(in, rec + 42)]
        func == FunctionInfo2_FromInfo(out)
        resources == SpanUnlessNull(t, globalRef, g)
        deps == SpanUnlessNull(t, depsRef, g)
        func1 == [func EXCEPT
                    !.globalResources =
                        [j \in 1..Len(resources.elems) |->
                            ResourcePair(resourceInfo, resources.elems[j], g)],
                    !.functionDependencies = GetStrings(t, deps.elems, g)]
    IN  [info |-> IF version = "Version2"
                  THEN [func1 EXCEPT !.minWaveCount = ByteAt(in, rec + 44),
                                     !.maxWaveCount = ByteAt(in, rec + 45),
                                     !.shaderBehaviourFlags = ReadU16(in, rec + 46),
                                     !.extraInfoRef = NullRef]
                  ELSE func1,
         spans |-> resources.calls \o deps.calls]

\* the reads DecodeFunctionInfo makes are inside the buffers read
FunctionInfoInBounds(in, rec, version, resourceInfo, t) ==
    /\ InBuffer(in, rec, IF version = "Version2" THEN SizeofEncodedFunctionInfo2
                         ELSE SizeofEncodedFunctionInfo)
    /\ StringInBounds(t, ReadU32(in, rec))
    /\ StringInBounds(t, ReadU32(in, rec + 4))
    /\ \A r \in {ReadU32(in, rec + 8)} \ {NullRef} :
          /\ SpanInBounds(t, r)
          /\ \A j \in 1..Len(IndexArrays_GetSpan(t.indexArrays, r)) :
                LET idx == IndexArrays_GetSpan(t.indexArrays, r)[j]
                IN  idx >= 0 /\ idx < Len(resourceInfo)
    /\ \A r \in {ReadU32(in, rec + 12)} \ {NullRef} :
          /\ SpanInBounds(t, r)
          /\ \A j \in 1..Len(IndexArrays_GetSpan(t.indexArrays, r)) :
                StringInBounds(t, IndexArrays_GetSpan(t.indexArrays, r)[j])

\* one EncodedSubobjectInfo at offset rec of in, decoded
DecodeSubobjectInfo(in, rec, t, g) ==
    LET type == ReadU32(in, rec)
        sub == SubobjectInfo_New(type, GetString(t, ReadU32(in, rec + 4), g))
        u == rec + 8
        T == SubobjectType
        exports == SpanUnlessNull(t, ReadU32(in, u + 4), g)
    IN  [spans |-> IF type = T.SubobjectToExportsAssoc THEN exports.calls ELSE <<>>,
         info |->
        IF type = T.StateConfig
        THEN [sub EXCEPT !.config = ReadU32(in, u)]
        ELSE IF type \in {T.GlobalRS, T.LocalRS}
        THEN LET offset == ReadU32(in, u)
                 size == ReadU32(in, u + 4)
             IN  [sub EXCEPT !.rs.data =
                     IF size = 0 THEN <<>>
                     ELSE IF InBuffer(t.rawbytes, offset, size)
                     THEN SubSeq(t.rawbytes, offset + 1, offset + size)
                     ELSE g.bytes]
        ELSE IF type = T.SubobjectToExportsAssoc
        THEN [sub EXCEPT
                 !.assoc.subobject = GetString(t, ReadU32(in, u), g),
                 !.assoc.exports = GetStrings(t, exports.elems, g)]
        ELSE IF type = T.RTShaderConfig
        THEN [sub EXCEPT !.rtshaderconfig = <<ReadU32(in, u), ReadU32(in, u + 4)>>]
        ELSE IF type \in {T.RTPipeConfig, T.RTPipeConfig1}
        THEN [sub EXCEPT !.rtpipeconfig = <<ReadU32(in, u), ReadU32(in, u + 4)>>]
        ELSE IF type = T.Hitgroup
        THEN [sub EXCEPT !.hitgroup =
                 [type |-> ReadU32(in, u),
                  anyHit |-> GetString(t, ReadU32(in, u + 4), g),
                  closestHit |-> GetString(t, ReadU32(in, u + 8), g),
                  intersection |-> GetString(t, ReadU32(in, u + 12), g)]]
        ELSE sub]

\* the reads DecodeSubobjectInfo makes are inside the buffers read
SubobjectInfoInBounds(in, rec, t) ==
    LET type == ReadU32(in, rec)
        u == rec + 8
        T == SubobjectType
    IN  /\ InBuffer(in, rec, SizeofEncodedSubobjectInfo)
        /\ StringInBounds(t, ReadU32(in, rec + 4))
        /\ type \in {T.GlobalRS, T.LocalRS} =>
              ReadU32(in, u + 4) = 0 \/ InBuffer(t.rawbytes, ReadU32(in, u), ReadU32(in, u + 4))
        /\ type = T.SubobjectToExportsAssoc =>
              /\ StringInBounds(t, ReadU32(in, u))
              /\ \A r \in {ReadU32(in, u + 4)} \ {NullRef} :
                    /\ SpanInBounds(t, r)
                    /\ \A j \in 1..Len(IndexArrays_GetSpan(t.indexArrays, r)) :
                          StringInBounds(t, IndexArrays_GetSpan(t.indexArrays, r)[j])
        /\ type = T.Hitgroup =>
              /\ StringInBounds(t, ReadU32(in, u + 4))
              /\ StringInBounds(t, ReadU32(in, u + 8))
              /\ StringInBounds(t, ReadU32(in, u + 12))

\* the version a function table of the given stride is decoded under
FunctionVersionOfStride(stride) ==
    IF stride = SizeofEncodedFunctionInfo2 THEN "Version2" ELSE "Version1"

\* the default case taken for the first table case: the part read as a
\* resource table
DecodeUnhandledPart_AsTable(in, p, t, g, d) ==
    [d EXCEPT !.rdat.resourceInfo =
                 @ \o [i \in 1..ReadU32(in, p.data) |->
                         DecodeResourceInfo(in,
                             p.data + SizeofRuntimePartTableHeader
                               + (i - 1) * SizeofEncodedResourceInfo, t, g)]]

\* line 605, the default case of the second pass: a warning naming the tag
DecodeUnhandledPart(in, p, t, g, d) == [d EXCEPT !.warned = Append(@, p.part)]

\* the second pass over one part: d holds the output rdat, whether a read
\* left its buffer (ub), whether an assertion failed (asserted), the
\* references handed to GetSpan (spans) and the tags warned about (warned)
DecodePart(in, partOffset, t, g, d) ==
    LET p == PartAt(in, partOffset)
        count == ReadU32(in, p.data)
        stride == ReadU32(in, p.data + 4)
        first == p.data + SizeofRuntimePartTableHeader
    IN  IF p.part \in {PartTag.StringBuffer, PartTag.IndexArrays, PartTag.RawBytes}
        THEN d
        ELSE IF p.part = PartTag.ResourceTable
        THEN LET rec(i) == first + (i - 1) * SizeofEncodedResourceInfo
             IN  [d EXCEPT
                    !.rdat.resourceInfo =
                        @ \o [i \in 1..count |-> DecodeResourceInfo(in, rec(i), t, g)],
                    !.asserted = @ \/ stride # SizeofEncodedResourceInfo,
                    !.ub = @ \/ \E i \in 1..count : ~ResourceInfoInBounds(in, rec(i), t)]
        ELSE IF p.part = PartTag.FunctionTable
        THEN LET rec(i) == first + (i - 1) * stride
                 version == FunctionVersionOfStride(stride)
                 resourceInfo == d.rdat.resourceInfo
             IN  [d EXCEPT
                    !.rdat.functionVersion = version,
                    !.rdat.functionInfo =
                        @ \o [i \in 1..count |->
                                DecodeFunctionInfo(in, rec(i), version, resourceInfo, t, g).info],
                    !.asserted = @ \/ stride \notin {SizeofEncodedFunctionInfo2,
                                                     SizeofEncodedFunctionInfo},
                    !.spans =
                        @ \o Concat([i \in 1..count |->
                                DecodeFunctionInfo(in, rec(i), version, resourceInfo, t, g).spans]),
                    !.ub = @ \/ \E i \in 1..count :
                              ~FunctionInfoInBounds(in, rec(i), version, resourceInfo, t)]
        ELSE IF p.part = PartTag.SubobjectTable
        THEN LET rec(i) == first + (i - 1) * SizeofEncodedSubobjectInfo
             IN  [d EXCEPT
                    !.rdat.subobjectsInfo =
                        @ \o [i \in 1..count |-> DecodeSubobjectInfo(in, rec(i), t, g).info],
                    !.asserted = @ \/ stride # SizeofEncodedSubobjectInfo,
                    !.spans =
                        @ \o Concat([i \in 1..count |->
                                DecodeSubobjectInfo(in, rec(i), t, g).spans]),
                    !.ub = @ \/ \E i \in 1..count : ~SubobjectInfoInBounds(in, rec(i), t)]
        ELSE DecodeUnhandledPart(in, p, t, g, d)

RECURSIVE DecodeTables(_, _, _, _, _)
\* the second pass over the parts
DecodeTables(in, offsets, t, g, d) ==
    IF offsets = <<>> THEN d
    ELSE DecodeTables(in, Tail(offsets), t, g,
                      DecodePart(in, Head(offsets), t, g, d))

-----------------------------------------------------------------------------
(* The state before the codec runs *)

\* SetRuntimeData's locals as constructed
EncNew ==
    [sb |-> StringBuffer_New(TRUE), ia |-> IndexArrays_New(TRUE, TRUE), blobs |-> <<>>,
     resourceInfo |-> <<>>, functionInfo |-> <<>>, functionInfo2 |-> <<>>,
     subobjectsInfo |-> <<>>]

\* GetRuntimeData's tables as constructed
TabsNew ==
    [stringbuffer |-> StringBuffer_New(TRUE), indexArrays |-> IndexArrays_New(TRUE, TRUE),
     rawbytes |-> <<>>]

\* nothing read, asserted or warned about yet
DstatNew ==
    [entry |-> RDATData_New("Version1"), words |-> 0, parts |-> 0, spans |-> <<>>,
     asserted |-> FALSE, warned |-> <<>>, ub |-> FALSE]

\* the codec's variables for the runs that do not exercise it
CodecIdle ==
    /\ pc = "idle"
    /\ src = RDATData_New("Version1")
    /\ enc = EncNew
    /\ ByteCode = <<>>
    /\ container = [m_ShaderBlob |-> <<>>, m_RDATOffset |-> 0]
    /\ partOffsets = <<>>
    /\ tabs = TabsNew
    /\ rdat = RDATData_New("Version1")
    /\ ret = "none"
    /\ dstat = DstatNew
    /\ foreign = [kind |-> "none", arg |-> 0]

-----------------------------------------------------------------------------
(* The tables driven by arbitrary MakeRef calls *)

\* strings are sequences of non-NUL characters
Chars == {97, 98}
TableStrings == SeqsUpTo(Chars, MaxValueLen)
TableArrays == SeqsUpTo({1, 2}, MaxValueLen)
TableBlobs == SeqsUpTo({7, 8}, MaxValueLen)

\* the table objects as constructed, for the runs that do not exercise them
TablesIdle ==
    /\ sb = StringBuffer_New(TRUE)
    /\ ia = IndexArrays_New(TRUE, TRUE)
    /\ bytesblobs = <<>>
    /\ calls = <<>>

\* the part list as constructed, for the runs that do not exercise it
BakeIdle ==
    /\ parts = <<>>
    /\ baked = <<>>

TablesInit ==
    /\ mode \in {"string", "index", "bytes"}
    /\ \E d \in (IF mode = "string" THEN BOOLEAN ELSE {TRUE}) : sb = StringBuffer_New(d)
    /\ \E d \in (IF mode = "index" THEN BOOLEAN ELSE {TRUE}),
          p \in (IF mode = "index" THEN BOOLEAN ELSE {TRUE}) : ia = IndexArrays_New(d, p)
    /\ bytesblobs = <<>>
    /\ calls = <<>>
    /\ BakeIdle
    /\ CodecIdle

\* a caller interns a string
StringMakeRef ==
    /\ mode = "string"
    /\ Len(calls) < MaxCalls
    /\ \E str \in TableStrings :
          LET r == StringBuffer_MakeRef(sb, str)
          IN  /\ sb' = r.obj
              /\ calls' = Append(calls, [value |-> str, emptyIsNull |-> FALSE,
                                         ref |-> r.ref, before |-> Len(sb.stringblob),
                                         after |-> Len(r.obj.stringblob)])
    /\ UNCHANGED <<mode, ia, bytesblobs, parts, baked, pc, encVars, decVars>>

\* a caller interns an index array
IndexMakeRef ==
    /\ mode = "index"
    /\ Len(calls) < MaxCalls
    /\ \E idxs \in TableArrays, emptyIsNull \in BOOLEAN :
          LET r == IndexArrays_MakeRef(ia, idxs, emptyIsNull)
          IN  /\ ia' = r.obj
              /\ calls' = Append(calls, [value |-> idxs, emptyIsNull |-> emptyIsNull,
                                         ref |-> r.ref, before |-> Len(ia.idxArrays),
                                         after |-> Len(r.obj.idxArrays)])
    /\ UNCHANGED <<mode, sb, bytesblobs, parts, baked, pc, encVars, decVars>>

\* a caller interns a byte blob
BytesMakeRef ==
    /\ mode = "bytes"
    /\ Len(calls) < MaxCalls
    /\ \E bytes \in TableBlobs :
          LET r == MakeBytesRef(bytesblobs, bytes)
          IN  /\ bytesblobs' = r.obj
              /\ calls' = Append(calls, [value |-> bytes, emptyIsNull |-> FALSE,
                                         ref |-> r.ref, before |-> Len(bytesblobs),
                                         after |-> Len(r.obj)])
    /\ UNCHANGED <<mode, sb, ia, parts, baked, pc, encVars, decVars>>

TablesNext == StringMakeRef \/ IndexMakeRef \/ BytesMakeRef

SpecTables == TablesInit /\ [][TablesNext]_vars

-----------------------------------------------------------------------------
(* Properties of the interning tables *)

\* the table exercised by this run deduplicates
Deduplicating ==
    \/ mode = "string" /\ sb.dedup
    \/ mode = "index" /\ ia.dedup
    \/ mode = "bytes"

\* calls i and i+1 intern the same value with the same arguments
SameCallTwice(i) ==
    /\ calls[i].value = calls[i + 1].value
    /\ calls[i].emptyIsNull = calls[i + 1].emptyIsNull

\* the elements of the table of this run, as a sequence
TableElems ==
    IF mode = "string" THEN sb.stringblob
    ELSE IF mode = "index" THEN ia.idxArrays
    ELSE Concat(bytesblobs)

(* C8, as stated: on a deduplicating StringTable, IndexArrayTable (either
   addressing mode, either empty-is-null setting) or ByteBlobTable, calling
   makeRef twice in a row with the same value returns the identical reference
   both times and the second call does not grow the table. *)
C8_DedupIdempotent_AllModes ==
    \A i \in 1..(Len(calls) - 1) :
        (Deduplicating /\ SameCallTwice(i)) =>
            /\ calls[i + 1].ref = calls[i].ref
            /\ calls[i + 1].after = calls[i + 1].before

(* C8, amended: the same holds on a deduplicating StringTable, ByteBlobTable
   and length-prefixed IndexArrayTable; on a deduplicating unprefixed
   IndexArrayTable the second call does not grow the table either, and
   returns an offset that is no greater than the first call's and at which
   the interned values are stored. *)
C8_DedupIdempotent ==
    \A i \in 1..(Len(calls) - 1) :
        (Deduplicating /\ SameCallTwice(i)) =>
            /\ calls[i + 1].after = calls[i + 1].before
            /\ IF mode = "index" /\ ~ia.prefix
               THEN /\ calls[i + 1].ref <= calls[i].ref
                    /\ calls[i + 1].ref # NullRef =>
                          SubSeq(ia.idxArrays, calls[i + 1].ref + 1,
                                 calls[i + 1].ref + Len(calls[i + 1].value))
                              = calls[i + 1].value
               ELSE calls[i + 1].ref = calls[i].ref

\* a deduplicating table was asked twice in a row for a value that the first
\* of the two calls had to append
C8_Witness ==
    \E i \in 1..(Len(calls) - 1) :
        /\ Deduplicating /\ SameCallTwice(i)
        /\ calls[i].after > calls[i].before
        /\ calls[i].before > 1

(* C9, as stated: on a non-deduplicating StringTable or IndexArrayTable
   (prefixed or unprefixed, any empty-is-null argument) any two distinct
   makeRef calls return different references, whatever the values. *)
C9_NoDedupDistinct_AllCalls ==
    (mode \in {"string", "index"} /\ ~Deduplicating) =>
        \A i, j \in 1..Len(calls) : i < j => calls[i].ref # calls[j].ref

(* C9, amended: on a non-deduplicating StringTable any two distinct makeRef
   calls return different references; on a non-deduplicating IndexArrayTable
   two distinct calls return different references whenever the earlier of
   the two interned a non-empty array, or an empty array in prefixed mode
   with empty-is-null off (an empty array with empty-is-null on returns the
   shared sentinel, and an empty array in unprefixed mode appends nothing). *)
C9_NoDedupDistinct ==
    (mode \in {"string", "index"} /\ ~Deduplicating) =>
        \A i, j \in 1..Len(calls) :
            (/\ i < j
             /\ \/ mode = "string"
                \/ calls[i].value # <<>>
                \/ ia.prefix /\ ~calls[i].emptyIsNull)
                => calls[i].ref # calls[j].ref

\* a non-deduplicating table interned the same value twice
C9_Witness ==
    /\ mode \in {"string", "index"} /\ ~Deduplicating
    /\ \E i, j \in 1..Len(calls) :
          i < j /\ calls[i].value = calls[j].value /\ calls[i].value # <<>>

-----------------------------------------------------------------------------
(* The part framer driven by arbitrary bake calls *)

\* the parts a caller may ask for
BakeTags == {PartTag.RawBytes}
BakeTableTags == {PartTag.ResourceTable}

BakeInit ==
    /\ mode = "bake"
    /\ TablesIdle
    /\ BakeIdle
    /\ CodecIdle

\* a caller bakes a blob of any size
BakeBlob ==
    /\ mode = "bake"
    /\ Len(baked) < MaxBakes
    /\ \E part \in BakeTags, n \in 0..MaxPayload :
          LET data == [i \in 1..n |-> 170 + i]
          IN  /\ parts' = BakeRuntimePart(parts, part, data)
              /\ baked' = Append(baked, [part |-> part, byteSize |-> n,
                                         before |-> Len(parts)])
    /\ UNCHANGED <<tableVars, pc, encVars, decVars>>

\* a caller bakes a table of any number of records of any size
BakeTable ==
    /\ mode = "bake"
    /\ Len(baked) < MaxBakes
    /\ \E part \in BakeTableTags, n \in 0..MaxBakeRecords, sizeofT \in 1..MaxRecordSize :
          LET entries == [i \in 1..n |-> [j \in 1..sizeofT |-> 16 * i + j]]
          IN  /\ parts' = BakeRuntimeTablePart(parts, part, entries, sizeofT)
              /\ baked' = Append(baked, [part |-> part, byteSize |-> n * sizeofT,
                                         before |-> Len(parts)])
    /\ UNCHANGED <<tableVars, pc, encVars, decVars>>

BakeNext == BakeBlob \/ BakeTable

SpecBake == BakeInit /\ [][BakeNext]_vars

\* the size field of the RuntimePartHeader at the front of part p
PartHeaderSize(p) == ReadU32(p, 4)

\* the number of parts in the list after bake call i
PartsAfter(i) == IF i = Len(baked) THEN Len(parts) ELSE baked[i + 1].before

(* C5: every part appended by BakeRuntimePart or BakeRuntimeTablePart has a
   header byteSize that is a multiple of 4 and equals the number of bytes
   stored after the part header, whatever the payload size, record count and
   record size; a call with a zero-byte payload or no records appends no
   part, any other call appends exactly one. *)
C5_Alignment ==
    /\ \A k \in 1..Len(parts) :
          /\ PartHeaderSize(parts[k]) % 4 = 0
          /\ PartHeaderSize(parts[k]) = Len(parts[k]) - SizeofRuntimePartHeader
    /\ \A i \in 1..Len(baked) :
          PartsAfter(i) = baked[i].before + (IF baked[i].byteSize = 0 THEN 0 ELSE 1)

\* a one-byte blob, a table whose records need padding and an empty payload
\* have all been handed to the framer
C5_Witness ==
    /\ mode = "bake"
    /\ \E i \in 1..Len(baked) : baked[i].byteSize = 1 /\ baked[i].part \in BakeTags
    /\ \E i \in 1..Len(baked) : baked[i].byteSize % 4 # 0 /\ baked[i].part \in BakeTableTags
    /\ \E i \in 1..Len(baked) : baked[i].byteSize = 0


-----------------------------------------------------------------------------
(* SetRuntimeData, phase by phase *)

\* lines 630-643: the resource records
Enc_Resources(e, x) ==
    LET r == EncodeResourceInfos(e.sb, x.resourceInfo, <<>>)
    IN  [e EXCEPT !.sb = r.sb, !.resourceInfo = r.out]

\* SetRuntimeData without the pass over the dependency names
Enc_Dependencies_Skipped(e, x) == e

\* lines 649-651: every function's dependency names are interned first
Enc_Dependencies(e, x) ==
    [e EXCEPT !.sb = MakeRefs(e.sb, AllDependencies(x.functionInfo), <<>>).sb]

\* lines 653-740: the function records, of the version the input carries
Enc_Functions(e, x) ==
    LET st == EncodeFunctionInfos([sb |-> e.sb, ia |-> e.ia, out |-> <<>>],
                                  x.resourceInfo, x.functionInfo, x.functionVersion)
    IN  IF x.functionVersion = "Version1"
        THEN [e EXCEPT !.sb = st.sb, !.ia = st.ia, !.functionInfo = st.out]
        ELSE [e EXCEPT !.sb = st.sb, !.ia = st.ia, !.functionInfo2 = st.out]

\* lines 742-809: the subobject records
Enc_Subobjects(e, x) ==
    LET st == EncodeSubobjectInfos([sb |-> e.sb, ia |-> e.ia, blobs |-> e.blobs,
                                    out |-> <<>>], x.subobjectsInfo)
    IN  [e EXCEPT !.sb = st.sb, !.ia = st.ia, !.blobs = st.blobs,
                  !.subobjectsInfo = st.out]

\* lines 811-829: the parts
Enc_Parts(e) == BakeAll(e.sb, e.ia, e.blobs, e)

\* SetRuntimeData as a whole: the bytes of the RDAT chunk
SetRuntimeData(x) ==
    WriteTotal(Enc_Parts(Enc_Subobjects(Enc_Functions(Enc_Dependencies(
        Enc_Resources(EncNew, x), x), x), x)))

-----------------------------------------------------------------------------
(* The RDATData values encoded *)

Str_a == <<97>>
Str_b == <<98>>
Str_f == <<102>>
Str_g == <<103, 64>>
Str_m == <<109>>

Resource(nspace, kind, resourceIndex, name) ==
    [nspace |-> nspace, kind |-> kind, resourceIndex |-> resourceIndex, space |-> 1,
     regStart |-> 2, regEnd |-> 3 + resourceIndex, name |-> name, flags |-> 520]

ResourceChoices ==
    {Resource(0, 10, 0, Str_a), Resource(1, 11, 1, Str_b), Resource(0, 12, 0, Str_a)}

Function(name, unmangledName, globalResources, functionDependencies, waves) ==
    [name |-> name, unmangledName |-> unmangledName,
     globalResources |-> globalResources,
     functionDependencies |-> functionDependencies,
     type |-> 1, payloadBytes |-> 300, attribBytes |-> 6, featureFlags |-> <<-2, 8>>,
     shaderCompatMask |-> 9, minShaderModel |-> 96, minType |-> 1,
     minWaveCount |-> waves[1], maxWaveCount |-> waves[2],
     shaderBehaviourFlags |-> waves[3], extraInfoRef |-> NullRef]

FunctionChoices ==
    {Function(Str_m, Str_a, <<>>, <<>>, <<0, 0, 0>>),
     Function(Str_f, Str_m, <<<<0, 0>>>>, <<Str_g>>, <<4, 8, 3>>),
     Function(Str_g, <<>>, <<<<1, 1>>, <<0, 0>>>>, <<Str_m, Str_g>>, <<0, 0, 0>>)}

Subobject(type, name) == SubobjectInfo_New(type, name)

\* the type of a subobject this version of the code does not know
UnknownSubobjectType == 13

SubobjectChoices ==
    LET T == SubobjectType
    IN  <<[Subobject(T.StateConfig, Str_a) EXCEPT !.config = 3],
          [Subobject(T.GlobalRS, Str_b) EXCEPT !.rs.data = <<1, 2, 3>>],
          [Subobject(T.SubobjectToExportsAssoc, Str_a) EXCEPT
              !.assoc = [subobject |-> Str_b, exports |-> <<Str_a, Str_g>>]],
          [Subobject(T.LocalRS, Str_f) EXCEPT !.rs.data = <<2, 3>>],
          [Subobject(T.GlobalRS, Str_m) EXCEPT !.rs.data = <<2, 3>>],
          [Subobject(T.LocalRS, <<>>) EXCEPT !.rs.data = <<>>],
          [Subobject(T.SubobjectToExportsAssoc, Str_b) EXCEPT
              !.assoc = [subobject |-> <<>>, exports |-> <<>>]],
          [Subobject(T.RTShaderConfig, Str_a) EXCEPT !.rtshaderconfig = <<16, 8>>],
          [Subobject(T.RTPipeConfig, Str_a) EXCEPT !.rtpipeconfig = <<2, 0>>],
          [Subobject(T.Hitgroup, Str_m) EXCEPT
              !.hitgroup = [type |-> 1, anyHit |-> Str_a, closestHit |-> <<>>,
                            intersection |-> Str_g]],
          [Subobject(T.RTPipeConfig1, Str_a) EXCEPT !.rtpipeconfig = <<3, 1>>],
          Subobject(UnknownSubobjectType, Str_a)>>

FunctionVersions == {"Version1", "Version2"}

\* the sequences of n distinct elements of S
DistinctSeqs(S, n) == {q \in [1..n -> S] : \A i, j \in 1..n : i # j => q[i] # q[j]}

\* the runs of n consecutive elements of the sequence all
Runs(all, n) == {SubSeq(all, i, i + n - 1) : i \in 1..(Len(all) - n + 1)}

\* the RDATData values of at most n records in all: any distinct resources
\* and functions in any order, and any run of the subobjects above
RDATDatas(n) ==
    UNION {
        {[functionVersion |-> v, resourceInfo |-> r, functionInfo |-> f,
          subobjectsInfo |-> s] :
            v \in FunctionVersions, r \in DistinctSeqs(ResourceChoices, c[1]),
            f \in DistinctSeqs(FunctionChoices, c[2]), s \in Runs(SubobjectChoices, c[3])} :
        c \in {cc \in (0..n) \X (0..n) \X (0..n) : cc[1] + cc[2] + cc[3] <= n}}

-----------------------------------------------------------------------------
(* Encoding, then decoding what was encoded *)

\* the bytes of the container in front of the RDAT chunk's data
ChunkPrefix == <<68, 88, 66, 67, 82, 68, 65, 84>>

\* a container whose RDAT chunk holds the bytes region
ContainerWith(region) ==
    [m_ShaderBlob |-> ChunkPrefix \o region, m_RDATOffset |-> Len(ChunkPrefix)]

\* a container with no RDAT chunk
ContainerWithout == [m_ShaderBlob |-> ChunkPrefix, m_RDATOffset |-> 0]

CodecInit ==
    /\ mode = "codec"
    /\ TablesIdle
    /\ BakeIdle
    /\ pc = "resources"
    /\ src \in RDATDatas(MaxRecords)
    /\ enc = EncNew
    /\ ByteCode = <<>>
    /\ container = ContainerWithout
    /\ partOffsets = <<>>
    /\ tabs = TabsNew
    /\ rdat = RDATData_New("Version1")
    /\ ret = "none"
    /\ dstat = DstatNew
    /\ foreign = [kind |-> "none", arg |-> 0]

EncodeResources ==
    /\ pc = "resources"
    /\ enc' = Enc_Resources(enc, src)
    /\ pc' = "dependencies"
    /\ UNCHANGED <<tableVars, bakeVars, src, ByteCode, decVars>>

InternDependencies ==
    /\ pc = "dependencies"
    /\ enc' = Enc_Dependencies(enc, src)
    /\ pc' = "functions"
    /\ UNCHANGED <<tableVars, bakeVars, src, ByteCode, decVars>>

EncodeFunctions ==
    /\ pc = "functions"
    /\ enc' = Enc_Functions(enc, src)
    /\ pc' = "subobjects"
    /\ UNCHANGED <<tableVars, bakeVars, src, ByteCode, decVars>>

EncodeSubobjects ==
    /\ pc = "subobjects"
    /\ enc' = Enc_Subobjects(enc, src)
    /\ pc' = "bake"
    /\ UNCHANGED <<tableVars, bakeVars, src, ByteCode, decVars>>

BakeParts ==
    /\ pc = "bake"
    /\ parts' = Enc_Parts(enc)
    /\ pc' = "header"
    /\ UNCHANGED <<tableVars, baked, encVars, decVars>>

WriteHeader ==
    /\ pc = "header"
    /\ ByteCode' = WriteTotal(parts)
    /\ pc' = "written"
    /\ UNCHANGED <<tableVars, bakeVars, src, enc, decVars>>

\* the container is loaded from the bytes written and handed, with a freshly
\* constructed RDATData, to GetRuntimeData
LoadContainer ==
    /\ pc = "written"
    /\ mode = "codec"
    /\ container' = ContainerWith(ByteCode)
    /\ \E v \in FunctionVersions : rdat' = RDATData_New(v)
    /\ dstat' = [dstat EXCEPT !.entry = rdat']
    /\ foreign' = [kind |-> "asis", arg |-> 0]
    /\ pc' = "decode"
    /\ UNCHANGED <<tableVars, bakeVars, encVars, partOffsets, tabs, ret>>

\* GetRuntimeData, lines 378-392
GetRuntimeData_ReadHeader ==
    /\ pc = "decode"
    /\ IF container.m_RDATOffset = 0
       THEN /\ ret' = "false"
            /\ pc' = "done"
            /\ UNCHANGED <<partOffsets, dstat>>
       ELSE LET h == ReadHeader(RegionOf(container))
            IN  /\ dstat' = [dstat EXCEPT !.words = h.words]
                /\ partOffsets' = h.partOffsets
                /\ IF h.ok THEN pc' = "pass1" /\ ret' = ret
                   ELSE pc' = "done" /\ ret' = "false"
    /\ UNCHANGED <<tableVars, bakeVars, encVars, container, tabs, rdat, foreign>>

\* GetRuntimeData, lines 394-412
GetRuntimeData_LoadTables ==
    /\ pc = "pass1"
    /\ tabs' = LoadTables(RegionOf(container), partOffsets, TabsNew)
    /\ dstat' = [dstat EXCEPT !.parts = Len(partOffsets)]
    /\ pc' = "pass2"
    /\ UNCHANGED <<tableVars, bakeVars, encVars, container, partOffsets, rdat, ret, foreign>>

\* what a read outside its buffer may yield
Garbage ==
    {[str |-> <<>>, span |-> <<>>, pair |-> <<0, 0>>, bytes |-> <<>>],
     [str |-> <<63>>, span |-> <<5>>, pair |-> <<7, 7>>, bytes |-> <<63>>]}

\* GetRuntimeData, lines 414-609.  A read outside a buffer is undefined
\* behaviour: the call may crash, or go on with whatever it read.
GetRuntimeData_DecodeTables ==
    /\ pc = "pass2"
    /\ \E g \in Garbage, crash \in BOOLEAN :
          LET d == DecodeTables(RegionOf(container), partOffsets, tabs, g,
                                [rdat |-> rdat, spans |-> <<>>, asserted |-> FALSE,
                                 warned |-> <<>>, ub |-> FALSE])
          IN  /\ crash => d.ub
              /\ rdat' = d.rdat
              /\ dstat' = [dstat EXCEPT !.spans = d.spans, !.asserted = d.asserted,
                                        !.warned = d.warned, !.ub = d.ub]
              /\ ret' = IF crash THEN "crashed" ELSE "true"
    /\ pc' = "done"
    /\ UNCHANGED <<tableVars, bakeVars, encVars, container, partOffsets, tabs, foreign>>

EncodeNext ==
    \/ EncodeResources
    \/ InternDependencies
    \/ EncodeFunctions
    \/ EncodeSubobjects
    \/ BakeParts
    \/ WriteHeader

DecodeNext ==
    \/ GetRuntimeData_ReadHeader
    \/ GetRuntimeData_LoadTables
    \/ GetRuntimeData_DecodeTables

CodecNext == EncodeNext \/ LoadContainer \/ DecodeNext

SpecCodec == CodecInit /\ [][CodecNext]_vars

-----------------------------------------------------------------------------
(* Properties of the codec *)

\* GetRuntimeData has returned from decoding what SetRuntimeData wrote
RoundTripDone == mode = "codec" /\ pc = "done"

\* every pair of every function's globalResources names a resource of x
ResourcesResolve(x) ==
    \A i \in 1..Len(x.functionInfo) :
        \A j \in 1..Len(x.functionInfo[i].globalResources) :
            IndexOfResource(x.resourceInfo, x.functionInfo[i].globalResources[j]) >= 0

\* the fields of function f that only a version 2 record carries hold the
\* values of a function decoded from a version 1 record
Version2FieldsDefault(f) ==
    f.minWaveCount = 0 /\ f.maxWaveCount = 0 /\ f.shaderBehaviourFlags = 0

(* C1, as stated: for every RDATData x (function-record version v1 or v2),
   decoding the bytes produced by encode(x) into an empty RDATData succeeds
   and yields a value equal to x in every field, the function-record version
   tag and the v2-only fields included. *)
C1_RoundTrip_Every ==
    RoundTripDone => ret = "true" /\ rdat = src

(* C1, amended: decoding encode(x) into an empty RDATData succeeds and
   yields x's resource, function and subobject sequences field for field and
   in order, and x's version tag when x has a function, provided that every
   global-resource pair of every function names a resource of x and that,
   when x is version 1, its functions hold the defaults in the v2-only
   fields. *)
C1_RoundTrip ==
    (/\ RoundTripDone
     /\ ResourcesResolve(src)
     /\ src.functionVersion = "Version1" =>
           \A i \in 1..Len(src.functionInfo) : Version2FieldsDefault(src.functionInfo[i]))
        => /\ ret = "true"
           /\ ~dstat.ub /\ ~dstat.asserted
           /\ rdat.resourceInfo = src.resourceInfo
           /\ rdat.functionInfo = src.functionInfo
           /\ rdat.subobjectsInfo = src.subobjectsInfo
           /\ src.functionInfo # <<>> => rdat.functionVersion = src.functionVersion

\* a version 2 value with a resource, a function that uses it and names a
\* dependency, and a root signature subobject went through the round trip
C1_Witness ==
    /\ RoundTripDone
    /\ ret = "true"
    /\ ResourcesResolve(src)
    /\ src.functionVersion = "Version2"
    /\ \E i \in 1..Len(src.functionInfo) :
          /\ src.functionInfo[i].globalResources # <<>>
          /\ src.functionInfo[i].functionDependencies # <<>>
          /\ ~Version2FieldsDefault(src.functionInfo[i])
    /\ \E i \in 1..Len(src.subobjectsInfo) : src.subobjectsInfo[i].rs.data # <<>>
    /\ rdat = src

\* SetRuntimeData has handed its bytes to ReplaceChunk
Written == mode = "codec" /\ pc \notin {"resources", "dependencies", "functions",
                                        "subobjects", "bake", "header"}

\* the header of the bytes written: part count and part offsets, and the tag
\* and size fields of the part header at each offset
OutCount == ReadU32(ByteCode, 4)
OutOffset(i) == ReadU32(ByteCode, 8 + 4 * (i - 1))
OutTag(i) == ReadU32(ByteCode, OutOffset(i))
OutSize(i) == ReadU32(ByteCode, OutOffset(i) + 4)
OutTags == {OutTag(i) : i \in 1..OutCount}

\* the place of each part tag in the order StringBuffer, ResourceTable,
\* FunctionTable, IndexArrays, RawBytes, SubobjectTable
PartRank(tag) ==
    CASE tag = PartTag.StringBuffer -> 1
      [] tag = PartTag.ResourceTable -> 2
      [] tag = PartTag.FunctionTable -> 3
      [] tag = PartTag.IndexArrays -> 4
      [] tag = PartTag.RawBytes -> 5
      [] tag = PartTag.SubobjectTable -> 6
      [] OTHER -> 0

(* C6: in every encoded output the parts appear in the relative order
   StringBuffer, ResourceTable, FunctionTable, IndexArrays, RawBytes,
   SubobjectTable, each tag at most once; a part whose table has no entry or
   whose blob is empty is absent; no part with any other tag is emitted. *)
C6_PartOrder ==
    Written =>
        /\ \A i \in 1..OutCount : PartRank(OutTag(i)) # 0
        /\ \A i, j \in 1..OutCount : i < j => PartRank(OutTag(i)) < PartRank(OutTag(j))
        /\ src.resourceInfo = <<>> => PartTag.ResourceTable \notin OutTags
        /\ src.functionInfo = <<>> => PartTag.FunctionTable \notin OutTags
        /\ src.subobjectsInfo = <<>> => PartTag.SubobjectTable \notin OutTags
        /\ enc.ia.idxArrays = <<>> => PartTag.IndexArrays \notin OutTags
        /\ Concat(enc.blobs) = <<>> => PartTag.RawBytes \notin OutTags

\* an output with all six parts was written, and one with the string buffer
\* alone
C6_Witness ==
    /\ Written
    /\ OutCount = 6
    /\ PartTag.IndexArrays \in OutTags /\ PartTag.RawBytes \in OutTags

(* C7: in every encoded output with n parts the header is the version tag,
   then n, then n part offsets with offset[1] = 4 + 4 + 4n and
   offset[i+1] = offset[i] + the size of part i with its 8-byte header; every
   offset is a multiple of 4, the offsets increase strictly, and the last
   offset plus the size of the last part is the length of the output. *)
C7_HeaderOffsets ==
    Written =>
        /\ ReadU32(ByteCode, 0) = Version1_0
        /\ OutCount = Len(parts)
        /\ OutCount >= 1
        /\ OutOffset(1) = 4 + 4 + 4 * OutCount
        /\ \A i \in 1..OutCount :
              /\ OutOffset(i) % 4 = 0
              /\ SubSeq(ByteCode, OutOffset(i) + 1, OutOffset(i) + Len(parts[i])) = parts[i]
              /\ OutSize(i) + SizeofRuntimePartHeader = Len(parts[i])
        /\ \A i \in 1..(OutCount - 1) :
              /\ OutOffset(i + 1) = OutOffset(i) + SizeofRuntimePartHeader + OutSize(i)
              /\ OutOffset(i) < OutOffset(i + 1)
        /\ OutOffset(OutCount) + SizeofRuntimePartHeader + OutSize(OutCount) = Len(ByteCode)

\* an output of several parts, one of them padded, was written
C7_Witness ==
    /\ Written
    /\ OutCount >= 4
    /\ Len(enc.sb.stringblob) % 4 # 0


-----------------------------------------------------------------------------
(* Decoding containers that another producer wrote *)

\* buf with the bytes at offsets offs, offs+1, ... replaced by bytes
PatchAt(buf, offs, bytes) ==
    [i \in 1..Len(buf) |->
        IF i > offs /\ i <= offs + Len(bytes) THEN bytes[i - offs] ELSE buf[i]]

\* the offsets, in the region, of the parts tagged tag
PartOffsetsOf(region, tag) ==
    SelectSeq(ReadHeader(region).partOffsets,
              LAMBDA offs : PartAt(region, offs).part = tag)

\* the table header of the part at partOffset and the offset of its first
\* record
TableAt(region, partOffset) ==
    LET p == PartAt(region, partOffset)
    IN  [count |-> ReadU32(region, p.data), stride |-> ReadU32(region, p.data + 4),
         first |-> p.data + SizeofRuntimePartTableHeader]

\* the offsets of the records of the tables tagged tag
RecordOffsetsOf(region, tag) ==
    Concat([k \in 1..Len(PartOffsetsOf(region, tag)) |->
              LET tb == TableAt(region, PartOffsetsOf(region, tag)[k])
              IN  [i \in 1..tb.count |-> tb.first + (i - 1) * tb.stride]])

\* the offsets of the export-association records of the region
AssocRecordsOf(region) ==
    SelectSeq(RecordOffsetsOf(region, PartTag.SubobjectTable),
              LAMBDA rec : ReadU32(region, rec) = SubobjectType.SubobjectToExportsAssoc)

RECURSIVE PatchAll(_, _, _)
\* buf with bytes written at every offset of offsets
PatchAll(buf, offsets, bytes) ==
    IF offsets = <<>> THEN buf
    ELSE PatchAll(PatchAt(buf, Head(offsets), bytes), Tail(offsets), bytes)

\* the strides a producer of another version gives its function records
ForeignStrides == {48, 56}

\* the version words of a producer of another version
ForeignVersions == {0, 17}

\* the ways a container handed to GetRuntimeData differs from what
\* SetRuntimeData writes: not at all, no RDAT chunk, another version word,
\* another function record stride, the null reference for the exports of
\* every export association
ForeignChoices ==
    {[kind |-> "asis", arg |-> 0], [kind |-> "absent", arg |-> 0],
     [kind |-> "nullExports", arg |-> 0]}
    \cup {[kind |-> "version", arg |-> v] : v \in ForeignVersions}
    \cup {[kind |-> "stride", arg |-> s] : s \in ForeignStrides}

\* the choice f changes something of the region
ForeignApplies(region, f) ==
    CASE f.kind = "stride" -> PartOffsetsOf(region, PartTag.FunctionTable) # <<>>
      [] f.kind = "nullExports" -> AssocRecordsOf(region) # <<>>
      [] OTHER -> TRUE

\* the container of choice f made from the region SetRuntimeData wrote
ForeignContainer(region, f) ==
    CASE f.kind = "absent" -> ContainerWithout
      [] f.kind = "version" -> ContainerWith(PatchAt(region, 0, U32Bytes(f.arg)))
      [] f.kind = "stride" ->
            ContainerWith(PatchAll(region,
                [k \in 1..Len(PartOffsetsOf(region, PartTag.FunctionTable)) |->
                    PartOffsetsOf(region, PartTag.FunctionTable)[k] + 12],
                U32Bytes(f.arg)))
      [] f.kind = "nullExports" ->
            ContainerWith(PatchAll(region,
                [k \in 1..Len(AssocRecordsOf(region)) |-> AssocRecordsOf(region)[k] + 12],
                U32Bytes(NullRef)))
      [] OTHER -> ContainerWith(region)

\* the RDATData values GetRuntimeData is handed: as constructed, or holding
\* records already
EntryRDATs ==
    {RDATData_New(v) : v \in FunctionVersions}
    \cup {[RDATData_New("Version2") EXCEPT
             !.resourceInfo = <<Resource(1, 11, 1, Str_b)>>]}

ForeignInit ==
    /\ mode = "foreign"
    /\ TablesIdle
    /\ BakeIdle
    /\ pc = "resources"
    /\ src \in RDATDatas(MaxForeignRecords)
    /\ enc = EncNew
    /\ ByteCode = <<>>
    /\ container = ContainerWithout
    /\ partOffsets = <<>>
    /\ tabs = TabsNew
    /\ rdat = RDATData_New("Version1")
    /\ ret = "none"
    /\ dstat = DstatNew
    /\ foreign = [kind |-> "none", arg |-> 0]

\* a container of another producer is handed, with an RDATData, to
\* GetRuntimeData
LoadForeign ==
    /\ pc = "written"
    /\ mode = "foreign"
    /\ \E f \in ForeignChoices :
          /\ ForeignApplies(ByteCode, f)
          /\ foreign' = f
          /\ container' = ForeignContainer(ByteCode, f)
    /\ \E r \in EntryRDATs : rdat' = r
    /\ dstat' = [dstat EXCEPT !.entry = rdat']
    /\ pc' = "decode"
    /\ UNCHANGED <<tableVars, bakeVars, encVars, partOffsets, tabs, ret>>

ForeignNext == EncodeNext \/ LoadForeign \/ DecodeNext

SpecDecode == ForeignInit /\ [][ForeignNext]_vars

\* the sentinel rule of the index arrays and of the decoder, checked together
SentinelInit == (TablesInit /\ mode = "index") \/ ForeignInit

SentinelNext == IndexMakeRef \/ ForeignNext

SpecSentinel == SentinelInit /\ [][SentinelNext]_vars

-----------------------------------------------------------------------------
(* Properties of the decoder *)

\* GetRuntimeData has returned
DecodeDone == pc = "done"

\* the container has an RDAT chunk
RegionPresent == container.m_RDATOffset # 0

\* the first 32-bit word of the RDAT region
VersionWord == ReadU32(RegionOf(container), 0)

(* C2: when the first 32-bit word of the RDAT region is not the supported
   version, GetRuntimeData returns false having read that one word only, no
   part count and no part, and rdat is as it was on entry. *)
C2_VersionMismatch ==
    (DecodeDone /\ RegionPresent /\ VersionWord # Version1_0)
        => /\ ret = "false"
           /\ dstat.words = 1
           /\ dstat.parts = 0
           /\ partOffsets = <<>>
           /\ rdat = dstat.entry

\* a region with parts and another version word was refused, the rdat handed
\* in holding a record
C2_Witness ==
    /\ DecodeDone
    /\ foreign.kind = "version"
    /\ VersionWord # Version1_0
    /\ ReadU32(RegionOf(container), 4) > 0
    /\ dstat.entry.resourceInfo # <<>>
    /\ ret = "false"

(* C3, as stated: the result for a container with no RDAT region (false,
   rdat as on entry) is never the result for a container whose region is
   malformed, such as one with another version word. *)
C3_Distinguishable ==
    /\ (DecodeDone /\ ~RegionPresent) => (ret = "false" /\ rdat = dstat.entry)
    /\ (DecodeDone /\ RegionPresent /\ VersionWord # Version1_0)
          => ~(ret = "false" /\ rdat = dstat.entry)

(* C3, amended: GetRuntimeData returns false with rdat as on entry both for
   a container with no RDAT region and for one whose region has another
   version word, so the two have the same result; it returns false in no
   other case, so that result is distinct from the one for a region of the
   supported version. *)
C3_SameFailure ==
    DecodeDone =>
        /\ (ret = "false") <=> (~RegionPresent \/ VersionWord # Version1_0)
        /\ ret = "false" => rdat = dstat.entry

\* a container with no RDAT region was refused, the data encoded and the
\* rdat handed in both holding records
C3_Witness ==
    /\ DecodeDone
    /\ foreign.kind = "absent"
    /\ ~RegionPresent
    /\ ret = "false"
    /\ src.functionInfo # <<>>
    /\ dstat.entry.resourceInfo # <<>>

\* the strides of the FunctionTable parts of the region decoded
FunctionStrides ==
    {TableAt(RegionOf(container), offs).stride :
        offs \in {partOffsets[k] : k \in
                    {j \in 1..Len(partOffsets) :
                        PartAt(RegionOf(container), partOffsets[j]).part
                            = PartTag.FunctionTable}}}

(* C4: a FunctionTable part whose stride is the size of the version 1 record
   decodes as version 1, one whose stride is the size of the version 2
   record decodes as version 2, and with any other stride GetRuntimeData
   does not return true and decodes no function record. *)
C4_StrideDetection ==
    (DecodeDone /\ ret # "false") =>
        \A stride \in FunctionStrides :
            /\ stride = SizeofEncodedFunctionInfo
                  => (ret = "true" => rdat.functionVersion = "Version1")
            /\ stride = SizeofEncodedFunctionInfo2
                  => (ret = "true" => rdat.functionVersion = "Version2")
            /\ stride \notin {SizeofEncodedFunctionInfo, SizeofEncodedFunctionInfo2}
                  => (ret # "true" /\ rdat.functionInfo = dstat.entry.functionInfo)

\* the references of the function and export-association records of the
\* region decoded, in the order the decoder meets them, with the list decoded
\* for each
ArrayRefsDecoded ==
    LET in == RegionOf(container)
        functions == RecordOffsetsOf(in, PartTag.FunctionTable)
        subobjects == RecordOffsetsOf(in, PartTag.SubobjectTable)
        f0 == Len(dstat.entry.functionInfo)
        s0 == Len(dstat.entry.subobjectsInfo)
    IN  Concat([k \in 1..Len(functions) |->
                  <<[ref |-> ReadU32(in, functions[k] + 8),
                     list |-> rdat.functionInfo[f0 + k].globalResources],
                    [ref |-> ReadU32(in, functions[k] + 12),
                     list |-> rdat.functionInfo[f0 + k].functionDependencies]>>])
        \o Concat([k \in 1..Len(subobjects) |->
                  IF ReadU32(in, subobjects[k]) = SubobjectType.SubobjectToExportsAssoc
                  THEN <<[ref |-> ReadU32(in, subobjects[k] + 12),
                          list |-> rdat.subobjectsInfo[s0 + k].assoc.exports]>>
                  ELSE <<>>])

(* C10: IndexArrays::MakeRef of an empty array with emptyIsNull returns ~0U
   and adds nothing to idxArrays, which only ever grows; and for a ~0U
   reference in a function record (global resources, dependencies) or in an
   export-association record GetRuntimeData yields an empty list and makes
   no GetSpan call: GetSpan is called once for each of the other
   references and never with ~0U. *)
C10_Sentinel ==
    /\ mode = "index" =>
          \A i \in 1..Len(calls) :
              (calls[i].value = <<>> /\ calls[i].emptyIsNull)
                  => (calls[i].ref = NullRef /\ calls[i].after = calls[i].before)
    /\ (mode = "foreign" /\ DecodeDone /\ ret # "false") =>
          /\ \A k \in 1..Len(ArrayRefsDecoded) :
                ArrayRefsDecoded[k].ref = NullRef => ArrayRefsDecoded[k].list = <<>>
          /\ \A k \in 1..Len(dstat.spans) : dstat.spans[k] # NullRef
          /\ Len(dstat.spans) =
                Len(SelectSeq(ArrayRefsDecoded, LAMBDA a : a.ref # NullRef))

\* SetRuntimeData interned the empty arrays of a function with emptyIsNull,
\* wrote ~0U for them and nothing into the index arrays for them, and the
\* decoder met them and an export association whose exports are ~0U
C10_Witness ==
    /\ mode = "foreign"
    /\ DecodeDone
    /\ ret = "true"
    /\ foreign.kind = "nullExports"
    /\ Len(src.functionInfo) = 1
    /\ src.functionInfo[1].globalResources = <<>>
    /\ src.functionInfo[1].functionDependencies = <<>>
    /\ Len(ArrayRefsDecoded) = 3
    /\ \A k \in 1..3 : ArrayRefsDecoded[k].ref = NullRef
    /\ dstat.spans = <<>>


-----------------------------------------------------------------------------
(* The order of the strings SetRuntimeData interns *)

RECURSIVE FirstOccurrences(_, _)
\* seq without the elements of seen and without repetitions, each element
\* where it first occurs
FirstOccurrences(seq, seen) ==
    IF seq = <<>> THEN <<>>
    ELSE IF Head(seq) \in seen THEN FirstOccurrences(Tail(seq), seen)
    ELSE <<Head(seq)>> \o FirstOccurrences(Tail(seq), seen \cup {Head(seq)})

\* the strings of one subobject: its name, then those of its payload
SubobjectStrings(info) ==
    <<info.name>> \o
    (IF info.type = SubobjectType.SubobjectToExportsAssoc
     THEN <<info.assoc.subobject>> \o info.assoc.exports
     ELSE IF info.type = SubobjectType.Hitgroup
     THEN <<info.hitgroup.anyHit, info.hitgroup.closestHit, info.hitgroup.intersection>>
     ELSE <<>>)

ResourceNames(x) == [i \in 1..Len(x.resourceInfo) |-> x.resourceInfo[i].name]

FunctionNames(x) ==
    Concat([i \in 1..Len(x.functionInfo) |->
              <<x.functionInfo[i].name, x.functionInfo[i].unmangledName>>])

\* the strings the claim has interned once the phase before at has run
InternOrder(x, at) ==
    ResourceNames(x)
      \o (IF at \in {"resources", "dependencies"} THEN <<>>
          ELSE AllDependencies(x.functionInfo))
      \o (IF at \in {"resources", "dependencies", "functions"} THEN <<>>
          ELSE FunctionNames(x))
      \o (IF at \in {"resources", "dependencies", "functions", "subobjects"} THEN <<>>
          ELSE Concat([i \in 1..Len(x.subobjectsInfo) |->
                          SubobjectStrings(x.subobjectsInfo[i])]))

\* a string buffer holding strs, each NUL terminated
BlobOf(strs) == Concat([i \in 1..Len(strs) |-> strs[i] \o <<0>>])

\* the range of a sequence
Range(seq) == {seq[i] : i \in 1..Len(seq)}

\* the offset of str in the encoder's string buffer
OffsetOf(str) == StringBuffer_Find(enc.sb.stringblob, str, 0)

\* the string buffer holds the empty string, then each distinct string
\* interned by the phases run so far, once, where it was first interned
InternedInOrder ==
    enc.sb.stringblob = BlobOf(FirstOccurrences(<<<<>>>> \o InternOrder(src, pc), {}))

\* the function names and unmangled names that are neither a resource name
\* nor a dependency name
OwnFunctionNames ==
    Range(FunctionNames(src))
        \ (Range(ResourceNames(src)) \cup Range(AllDependencies(src.functionInfo)))

(* C11, as stated: the string buffer SetRuntimeData builds is the empty
   string at offset 0 followed by each distinct string once, in the order of
   first interning: the resource names, then every function's dependency
   names, then each function's name and unmangled name, then each
   subobject's strings.  Every dependency name lies below every function
   name or unmangled name that is neither a resource name nor a dependency
   name. *)
C11_InternOrder_AnyName ==
    (mode = "codec" /\ pc \notin {"resources", "dependencies", "functions"}) =>
        /\ InternedInOrder
        /\ \A d \in Range(AllDependencies(src.functionInfo)) :
              \A n \in OwnFunctionNames : OffsetOf(d) < OffsetOf(n)

(* C11, amended: the same string buffer contents, after each phase for the
   strings interned so far; every dependency name lies below every function
   name or unmangled name that is not empty and is neither a resource name
   nor a dependency name, the empty name being the entry at offset 0. *)
C11_InternOrder ==
    (mode = "codec" /\ pc # "resources") =>
        /\ InternedInOrder
        /\ pc \notin {"dependencies", "functions"} =>
              /\ \A d \in Range(AllDependencies(src.functionInfo)) :
                    \A n \in OwnFunctionNames \ {<<>>} : OffsetOf(d) < OffsetOf(n)
              /\ \A n \in Range(FunctionNames(src)) : n = <<>> => OffsetOf(n) = 0

\* two functions were encoded, the second with a dependency that is not a
\* name interned before it and the first with a name of its own, and the
\* dependency lies below that name
C11_Witness ==
    /\ mode = "codec"
    /\ pc = "written"
    /\ Len(src.functionInfo) >= 2
    /\ src.functionInfo[1].functionDependencies = <<>>
    /\ src.functionInfo[2].functionDependencies # <<>>
    /\ src.functionInfo[1].name \notin
          Range(ResourceNames(src)) \cup Range(AllDependencies(src.functionInfo))
    /\ OffsetOf(src.functionInfo[2].functionDependencies[1])
          < OffsetOf(src.functionInfo[1].name)


-----------------------------------------------------------------------------
(* Decoding regions laid out by another producer *)

\* the parts of the region, header and payload, in the order of the header
PartsOf(region) ==
    LET offsets == ReadHeader(region).partOffsets
    IN  [k \in 1..Len(offsets) |->
            SubSeq(region, offsets[k] + 1,
                   offsets[k] + SizeofRuntimePartHeader + PartAt(region, offsets[k]).size)]

\* the part tags GetRuntimeData has a case for
HandledTags ==
    {PartTag.StringBuffer, PartTag.IndexArrays, PartTag.RawBytes,
     PartTag.ResourceTable, PartTag.FunctionTable, PartTag.SubobjectTable}

\* tags GetRuntimeData has no case for: Invalid, and the first tag of a later
\* version of the format
UnhandledTags == {PartTag.Invalid, 7}

\* a part of tag tag whose 8 payload bytes read as the header of a table of
\* one record
UnhandledPart(tag) ==
    U32Bytes(tag) \o U32Bytes(8) \o U32Bytes(1) \o U32Bytes(SizeofEncodedResourceInfo)

\* the region with the offsets of its header put in the order perm
WithOffsets(region, offsets) ==
    PatchAt(region, 8, WordsBytes(offsets))

Reverse(seq) == [i \in 1..Len(seq) |-> seq[Len(seq) + 1 - i]]

RotateLeft(seq) == IF seq = <<>> THEN <<>> ELSE Tail(seq) \o <<Head(seq)>>

\* the layouts of another producer: a part of an unhandled tag in front of
\* or behind the parts, the part offsets listed in reverse (arg 0) or
\* rotated by one (arg 1)
LayoutChoices ==
    {[kind |-> k, arg |-> tag] : k \in {"unknownFirst", "unknownLast"},
                                 tag \in UnhandledTags}
    \cup {[kind |-> "permute", arg |-> a] : a \in {0, 1}}

\* the container of layout f made from the region SetRuntimeData wrote
LayoutContainer(region, f) ==
    CASE f.kind = "unknownFirst" ->
            ContainerWith(WriteTotal(<<UnhandledPart(f.arg)>> \o PartsOf(region)))
      [] f.kind = "unknownLast" ->
            ContainerWith(WriteTotal(PartsOf(region) \o <<UnhandledPart(f.arg)>>))
      [] f.kind = "permute" ->
            ContainerWith(WithOffsets(region,
                IF f.arg = 0 THEN Reverse(ReadHeader(region).partOffsets)
                ELSE RotateLeft(ReadHeader(region).partOffsets)))

\* a container laid out by another producer is handed, with an RDATData, to
\* GetRuntimeData
LoadLayout ==
    /\ pc = "written"
    /\ mode = "foreign"
    /\ \E f \in LayoutChoices :
          /\ f.kind = "permute" => Len(ReadHeader(ByteCode).partOffsets) >= 2
          /\ foreign' = f
          /\ container' = LayoutContainer(ByteCode, f)
    /\ \E r \in EntryRDATs : rdat' = r
    /\ dstat' = [dstat EXCEPT !.entry = rdat']
    /\ pc' = "decode"
    /\ UNCHANGED <<tableVars, bakeVars, encVars, partOffsets, tabs, ret>>

\* the RDATData GetRuntimeData returned is handed to SetRuntimeData
Reencode ==
    /\ pc = "done"
    /\ mode = "foreign"
    /\ ret = "true"
    /\ ByteCode' = SetRuntimeData(rdat)
    /\ pc' = "reencoded"
    /\ UNCHANGED <<tableVars, bakeVars, src, enc, decVars>>

LayoutNext == EncodeNext \/ LoadLayout \/ DecodeNext \/ Reencode

SpecLayout == ForeignInit /\ [][LayoutNext]_vars


-----------------------------------------------------------------------------
(* Properties of decoding other layouts *)

\* the region decoded has a part of a tag GetRuntimeData has no case for
UnknownPartDecoded ==
    /\ mode = "foreign"
    /\ foreign.kind \in {"unknownFirst", "unknownLast"}
    /\ pc \in {"done", "reencoded"}

\* the part offsets of the region decoded without those of the parts of an
\* unhandled tag
HandledOffsets ==
    SelectSeq(partOffsets,
              LAMBDA offs : PartAt(RegionOf(container), offs).part \in HandledTags)

\* what GetRuntimeData makes of the region decoded when its header lists the
\* part offsets offsets, reads outside a buffer yielding g
DecodeListing(offsets, g) ==
    DecodeTables(RegionOf(container), offsets,
                 LoadTables(RegionOf(container), offsets, TabsNew), g,
                 [rdat |-> dstat.entry, spans |-> <<>>, asserted |-> FALSE,
                  warned |-> <<>>, ub |-> FALSE])

\* the tags of the parts of a region
TagsOf(region) ==
    {PartAt(region, ReadHeader(region).partOffsets[k]).part :
        k \in 1..Len(ReadHeader(region).partOffsets)}

(* C12: a part of an unrecognised tag does not make GetRuntimeData fail: it
   returns true (unless a read that leaves a buffer without that part too
   crashes it), warns about the tag, and rdat is what decoding the region
   with that part taken off the part list yields; SetRuntimeData of that
   rdat writes no part of that tag, only parts of the six tags it knows. *)
C12_UnknownPart ==
    UnknownPartDecoded =>
        /\ ret # "false"
        /\ dstat.warned = <<foreign.arg>>
        /\ \E g \in Garbage :
              /\ rdat = DecodeListing(HandledOffsets, g).rdat
              /\ dstat.ub = DecodeListing(HandledOffsets, g).ub
        /\ ~dstat.ub => ret = "true"
        /\ pc = "reencoded" =>
              /\ foreign.arg \notin TagsOf(ByteCode)
              /\ TagsOf(ByteCode) \subseteq HandledTags

\* a region with a resource table, a subobject table and a part tagged 7 in
\* front was decoded into an empty rdat, which was encoded again
C12_Witness ==
    /\ UnknownPartDecoded
    /\ pc = "reencoded"
    /\ foreign = [kind |-> "unknownFirst", arg |-> 7]
    /\ ~dstat.ub
    /\ dstat.entry = RDATData_New("Version1")
    /\ rdat.resourceInfo # <<>>
    /\ rdat.subobjectsInfo # <<>>
    /\ Len(partOffsets) > Len(HandledOffsets)


-----------------------------------------------------------------------------
(* Properties of the deduplicating index arrays *)

\* idxArrays as call i found it: the table only ever appends
ArraysBefore(i) == SubSeq(ia.idxArrays, 1, calls[i].before)

\* the offsets at which the calls before call i stored an array
StoredStarts(i) == {calls[j].ref : j \in {k \in 1..(i - 1) : calls[k].after > calls[k].before}}

\* the offsets call i may return without appending: in prefixed mode the
\* starts of stored arrays of the same count and elements, in unprefixed
\* mode every offset at which the values are found
MatchesOf(i) ==
    LET buf == ArraysBefore(i)
        v == calls[i].value
    IN  IF ia.prefix
        THEN {o \in StoredStarts(i) :
                buf[o + 1] = Len(v) /\ SubSeq(buf, o + 2, o + 1 + Len(v)) = v}
        ELSE {o \in 0..(Len(buf) - 1) :
                o + Len(v) <= Len(buf) /\ SubSeq(buf, o + 1, o + Len(v)) = v}

\* call i did what the claim says of a deduplicating MakeRef
DedupMakeRefRule(i) ==
    LET v == calls[i].value
        c == calls[i]
    IN  /\ IF MatchesOf(i) # {}
           THEN /\ c.ref \in MatchesOf(i)
                /\ ~ia.prefix => \A o \in MatchesOf(i) : c.ref <= o
                /\ c.after = c.before
           ELSE /\ c.ref = c.before
                /\ SubSeq(ia.idxArrays, c.before + 1, c.after)
                      = (IF ia.prefix THEN <<Len(v)>> ELSE <<>>) \o v
        /\ SubSeq(IndexArrays_GetSpan(ia, c.ref), 1, Len(v)) = v
        /\ ia.prefix => IndexArrays_GetSpan(ia, c.ref) = v

(* C13, as stated: every MakeRef call on a deduplicating IndexArrays, after
   any earlier calls, returns in prefixed mode the start of a stored array
   of the same count and elements, in unprefixed mode the lowest offset at
   which the values are found, and appends (count first in prefixed mode)
   and returns the length before the append when there is none; the
   elements read back at the reference begin with the values. *)
C13_DedupMakeRef_EveryCall ==
    (mode = "index" /\ ia.dedup) => \A i \in 1..Len(calls) : DedupMakeRefRule(i)

(* C13, amended: the same for every call but those with an empty array and
   emptyIsNull, which return ~0U, a reference that is not an offset, and
   append nothing. *)
C13_DedupMakeRef ==
    (mode = "index" /\ ia.dedup) =>
        \A i \in 1..Len(calls) :
            IF calls[i].value = <<>> /\ calls[i].emptyIsNull
            THEN calls[i].ref = NullRef /\ calls[i].after = calls[i].before
            ELSE DedupMakeRefRule(i)

\* a prefixed deduplicating table stored an array whose values occur inside
\* an array stored before, and later returned its offset for the same values
C13_Witness ==
    /\ mode = "index" /\ ia.dedup /\ ia.prefix
    /\ \E i, j \in 1..Len(calls) :
          /\ i < j
          /\ calls[i].value # <<>>
          /\ calls[i].after > calls[i].before
          /\ calls[i].before > 0
          /\ \E o \in 1..(calls[i].before - 1) :
                SubSeq(ia.idxArrays, o + 1, o + Len(calls[i].value)) = calls[i].value
          /\ calls[j].value = calls[i].value
          /\ calls[j].ref = calls[i].ref
          /\ calls[j].after = calls[j].before


-----------------------------------------------------------------------------
(* Properties of the string buffer *)

\* a step leaves every byte of the string buffer in place and may append
StringBlobGrows ==
    /\ Len(sb'.stringblob) >= Len(sb.stringblob)
    /\ SubSeq(sb'.stringblob, 1, Len(sb.stringblob)) = sb.stringblob

\* every reference a MakeRef call returned resolves to the string of the
\* call, and offset 0 to the empty string
StringRefsResolve ==
    /\ \A i \in 1..Len(calls) : StringBuffer_GetString(sb, calls[i].ref) = calls[i].value
    /\ StringBuffer_GetString(sb, 0) = <<>>

(* C14: over any sequence of StringBuffer::MakeRef calls, deduplicating or
   not, the buffer only grows by appending and no earlier byte changes;
   every reference returned by an earlier MakeRef(s) resolves through
   GetString to s after all later calls, and offset 0 resolves to the empty
   string. *)
C14_StringStability ==
    /\ [][mode = "string" => StringBlobGrows]_vars
    /\ [](mode = "string" => StringRefsResolve)

\* a string interned first still resolves after two later calls appended
\* other strings
C14_Witness ==
    /\ mode = "string"
    /\ Len(calls) = 3
    /\ calls[1].value # <<>>
    /\ calls[2].after > calls[2].before
    /\ calls[3].after > calls[3].before
    /\ calls[2].value # calls[1].value
    /\ StringBuffer_GetString(sb, calls[1].ref) = calls[1].value


\* GetRuntimeData has returned from a region whose header lists the part
\* offsets in another order than SetRuntimeData wrote them; the region is
\* well formed, every global-resource pair naming a resource
PermutedDecoded ==
    /\ mode = "foreign"
    /\ foreign.kind = "permute"
    /\ pc = "done"
    /\ ResourcesResolve(src)

\* the part offsets in the order SetRuntimeData wrote them
WrittenOffsets == ReadHeader(ByteCode).partOffsets

\* the resource table of the region decoded is listed before its function
\* table, or one of the two is missing
ResourcesListedFirst ==
    \A i, j \in 1..Len(partOffsets) :
        (/\ PartAt(RegionOf(container), partOffsets[i]).part = PartTag.ResourceTable
         /\ PartAt(RegionOf(container), partOffsets[j]).part = PartTag.FunctionTable)
            => i < j

(* C15: for a well-formed region and any order of its part offsets in the
   header, every reference resolved in the second pass, each function's
   global-resource indices into the resource sequence included, is resolved
   against a fully loaded target (no read leaves a buffer), and
   GetRuntimeData returns true with the rdat it yields for the offsets in
   written order. *)
C15_OrderIndependent ==
    PermutedDecoded =>
        /\ ~dstat.ub
        /\ ret = "true"
        /\ \E g \in Garbage : rdat = DecodeListing(WrittenOffsets, g).rdat

=============================================================================
